---- MODULE Spec2Model ----
(***************************************************************************)
(* rcm: the `rcm sync [--dry-run]` process.                                *)
(*                                                                         *)
(*   main (cmd/rcm/main.go) installs the signal handler, defers CloseAll   *)
(*   and calls cmd.Execute, which runs the Bubbletea program of one        *)
(*   SyncModel (internal/cmd/sync.go).  SyncModel.Update reacts to key     *)
(*   presses and to the message returned by the command of runStep;        *)
(*   runStep fans out goroutines that use the process-wide SSH pool        *)
(*   (internal/ssh/pool.go) and collects their results from a channel.     *)
(***************************************************************************)
EXTENDS Integers, Sequences, FiniteSets, TLC

(***************************************************************************)
(* Bounds                                                                  *)
(***************************************************************************)
\* number of SSH connections that can be established to one machine in one
\* run; once reached, every further dial to it fails (a dial may always fail)
MaxClients == 2

\* number of lines of a document drawn line by line
MaxLines == 3

\* number of annotated blocks of a document drawn block by block
MaxBlocks == 3

\* number of times a document is parsed
MaxCalls == 2

\* blocks in a document whose blocks vary address and port
MaxVariants == 2

\* pieces in the standard output of a remote command
MaxOut == 3

\* times a view is entered from the menu
MaxInv == 2

\* runs of the parsing stage on one local document
MaxRuns == 2

\* selections made in the restart view
MaxRestarts == 1

(***************************************************************************)
(* Program constants                                                       *)
(***************************************************************************)
stepParsing    == 0
stepGenerating == 1
stepUploading  == 2
stepRestarting == 3
stepComplete   == 4
stepFailed     == 5

taskPending == 0
taskRunning == 1
taskDone    == 2
taskFailed  == 3

\* pool keys, user + "@" + host, of the two configured machines
KeyServer == "user@server"
KeyClient == "user@client"
Keys == {KeyServer, KeyClient}

\* client instances (pointers); NoClient is nil / "not in the map".  The
\* n-th client NewClient returns for a key is named by a number of its own.
NoClient == 0
ClientId(key, n) == IF key = KeyServer THEN 2 * n - 1 ELSE 2 * n

\* the goroutines started by runStep, one name per stage and task
TaskIds == {"parseLocal", "parseRemote", "uploadServer", "uploadClient",
            "restartServer", "restartClient", "restartCaddy"}

\* the units of work whose outcome is recorded: the goroutines and the
\* (sequential) generating step
WorkIds == TaskIds \cup {"generate"}

\* holders of poolMu besides the goroutines
NoHolder == "free"

VARIABLES
    m,             \* the SyncModel held by the Bubbletea program
    config,        \* the configuration fields the code branches on
    run,           \* the runStep command in flight: captured model, collector locals
    pc,            \* position of each goroutine of runStep
    held,          \* client returned by GetClient to each goroutine
    opsDone,       \* remote operations a goroutine has completed
    resultCh,      \* resultCh of the stage in flight
    msgs,          \* messages returned by commands, not yet given to Update
    pool,          \* ssh.pool: key -> client
    closed,        \* clients on which Close was called
    nextId,        \* per key, number of clients created so far
    poolMu,        \* holder of ssh.poolMu
    mainPc,        \* position of main
    sigPc,         \* position of the signal goroutine of main
    exitCode,      \* -1 while the process runs, else its exit status
    closeAllCalls, \* number of calls of ssh.CloseAll
    launched,      \* history: the steps passed to runStep, in order
    sent,          \* history: results each goroutine put on resultCh
    outcome,       \* history: what each goroutine actually achieved
    unitInactive,  \* environment: restarted units that did not come back
    uploaded,      \* environment: content written by each upload goroutine
    parseRuns,     \* history: executions of parser.ParseFile
    genRuns,       \* history: executions of the generator
    commits,       \* history: accepted enter/s presses
    endKeys,       \* history: enter/s presses handled after the pipeline ended
    failOrder,     \* history: the goroutines that sent an error, in order
    call,          \* history: the GetClient call each goroutine completed
    lastGot,       \* history: per key, client of the last successful GetClient
                   \*          since the last CloseAll (NoClient if none)
    purged,        \* history: per key, was cached when CloseAll last ran and
                   \*          no GetClient for it completed since
    lastCloseAll,  \* history: clients cached when CloseAll last ran; pool
                   \*          untouched since (cleared by the next GetClient)
    doc,           \* parser: the document handed to ParseContent
    parser,        \* parser: the locals of Parse when its last call returned
    results,       \* parser: what each call of ParseContent returned
    opLog,         \* ssh: the last operation called on a Client, with what
                   \*      the remote side answered and what it returned
    app,           \* views: the AppModel with its sync and pull sub-models
    inflight,      \* views: the commands returned by Update and not yet
                   \*        finished
    localFile,     \* environment: the local Caddyfile
    appHist,       \* history: per view and invocation, the steps launched
                   \*          and completed, the keys, the writes
    poolLog,       \* history: the last call of the pool without probe, the
                   \*          pool it found, and the keys removed since
    merges,        \* views: the services ParseFile returned and what each
                   \*        run of the parsing stage made of them
    restart        \* views: the RestartModel, the commands of its batches
                   \*        not yet finished, and its history

syncVars == <<m, config, run, pc, held, opsDone, resultCh, msgs, pool, closed,
          nextId, poolMu, mainPc, sigPc, exitCode, closeAllCalls,
          launched, sent, outcome, failOrder, unitInactive, uploaded, parseRuns, genRuns,
          commits, endKeys, call, lastGot, purged, lastCloseAll>>

parserVars == <<doc, parser, results>>

opsVars == <<opLog>>

\* what the sync view and the process never touch
appVars == <<app, inflight, localFile, appHist>>

poolLogVars == <<poolLog>>

mergeVars == <<merges>>

restartVars == <<restart>>

sideVars == <<parserVars, opsVars, appVars, poolLogVars, mergeVars,
              restartVars>>

vars == <<syncVars, sideVars>>

uiVars   == <<m, run, resultCh, msgs, launched, parseRuns, genRuns, commits, endKeys>>
taskVars == <<pc, held, opsDone, sent, outcome, failOrder, unitInactive, uploaded>>
poolVars == <<pool, closed, nextId, poolMu, call, lastGot, purged, lastCloseAll>>
procVars == <<mainPc, sigPc, exitCode, closeAllCalls>>

Running == exitCode = -1

(***************************************************************************)
(* Configuration and construction                                          *)
(***************************************************************************)
\* the two optional settings the sync code branches on:
\*   caddyComposeDir : config.Server.CaddyComposeDir != ""
\*   caddyfile       : config.Server.Caddyfile != ""
Configs == [caddyComposeDir : BOOLEAN, caddyfile : BOOLEAN]

\* "" for the rendered artifacts, nil for the service list
NoTOML == [kind |-> "none", gen |-> 0]
NoServices == 0

\* the services of a remote document that names the services of the local one
SameAsLocal == 1

\* serviceRows: the rows built from the local services, each with IsRemote
\* set when the remote services hold its name; NoRows is nil
NoRows == [services |-> NoServices, isRemote |-> FALSE]

NewSyncModel(dryRun) ==
    [step |-> stepParsing, dryRun |-> dryRun, err |-> "",
     parseStatus |-> taskRunning, generateStatus |-> taskPending,
     uploadServerStatus |-> taskPending, uploadClientStatus |-> taskPending,
     restartServerStatus |-> taskPending, restartClientStatus |-> taskPending,
     restartCaddyStatus |-> taskPending,
     services |-> NoServices, serviceRows |-> NoRows,
     serverTOML |-> NoTOML, clientTOML |-> NoTOML]

\* terminal at stepFailed, and at stepComplete outside the dry-run preview
Ended(model) ==
    \/ model.step = stepFailed
    \/ model.step = stepComplete /\ ~model.dryRun

\* no command in flight
NoRun ==
    [active |-> FALSE, step |-> stepParsing, services |-> NoServices,
     serverTOML |-> NoTOML, clientTOML |-> NoTOML, got |-> 0,
     serverOK |-> FALSE, serverFailed |-> FALSE,
     clientOK |-> FALSE, clientFailed |-> FALSE,
     caddyOK |-> FALSE, caddyFailed |-> FALSE,
     firstErr |-> "", localErr |-> FALSE, localServices |-> NoServices,
     remoteServices |-> NoServices]

\* the goroutines runStep(step) starts
StageTasks(step, cfg) ==
    CASE step = stepParsing    -> {"parseLocal", "parseRemote"}
      [] step = stepUploading  -> {"uploadServer", "uploadClient"}
      [] step = stepRestarting ->
            {"restartServer", "restartClient"}
              \cup (IF cfg.caddyComposeDir THEN {"restartCaddy"} ELSE {})
      [] OTHER -> {}

StageOf(t) ==
    CASE t \in {"parseLocal", "parseRemote"}    -> stepParsing
      [] t \in {"uploadServer", "uploadClient"} -> stepUploading
      [] OTHER                                  -> stepRestarting

\* the name a goroutine puts in its taskResult / parseResult
ResultName(t) ==
    CASE t = "parseLocal"                        -> "local"
      [] t = "parseRemote"                       -> "remote"
      [] t \in {"uploadServer", "restartServer"} -> "server"
      [] t \in {"uploadClient", "restartClient"} -> "client"
      [] OTHER                                   -> "caddy"

\* the pool key of the machine a goroutine talks to
KeyOf(t) ==
    IF t \in {"uploadClient", "restartClient"} THEN KeyClient ELSE KeyServer

\* remote operations a goroutine issues through its client, one after another
NumOps(t, cfg) ==
    IF t = "uploadServer" /\ cfg.caddyfile THEN 2 ELSE 1

(***************************************************************************)
(* internal/ssh/pool.go                                                    *)
(***************************************************************************)
\* history record of a goroutine that has not completed a GetClient call
NoCall == [done |-> FALSE, prev |-> NoClient, probeOK |-> FALSE,
           ret |-> NoClient, dialed |-> FALSE, dialOK |-> FALSE,
           purged |-> FALSE, retClosed |-> FALSE]

\* client.Run cannot succeed on a client that was closed
Usable(c) == c # NoClient /\ c \notin closed

\* faulty variant of GetClient: the new client is not stored in the map
GetClientNoStore(p, key, runOK, dialOK, fresh) ==
    LET hit     == p[key] # NoClient
        probeOK == hit /\ runOK /\ Usable(p[key])
        cleaned == [p EXCEPT ![key] = NoClient]
    IN  IF probeOK
        THEN [pool |-> p, ret |-> p[key], dialed |-> FALSE,
              closes |-> {}, created |-> FALSE]
        ELSE [pool |-> cleaned, ret |-> IF dialOK THEN fresh ELSE NoClient,
              dialed |-> TRUE, closes |-> IF hit THEN {p[key]} ELSE {},
              created |-> dialOK]

\* faulty variant of GetClient: after a failed NewClient a second one is
\* tried, which succeeds
GetClientRetrying(p, key, runOK, dialOK, fresh) ==
    LET hit     == p[key] # NoClient
        probeOK == hit /\ runOK /\ Usable(p[key])
        cleaned == [p EXCEPT ![key] = NoClient]
    IN  IF probeOK
        THEN [pool |-> p, ret |-> p[key], dialed |-> FALSE,
              closes |-> {}, created |-> FALSE]
        ELSE [pool |-> [cleaned EXCEPT ![key] = fresh], ret |-> fresh,
              dialed |-> TRUE, closes |-> IF hit THEN {p[key]} ELSE {},
              created |-> TRUE]

\* faulty variant of GetClient: a cached client is returned without the
\* probe
GetClientSkippingProbe(p, key, runOK, dialOK, fresh) ==
    IF p[key] # NoClient
    THEN [pool |-> p, ret |-> p[key], dialed |-> FALSE,
          closes |-> {}, created |-> FALSE]
    ELSE IF dialOK
    THEN [pool |-> [p EXCEPT ![key] = fresh], ret |-> fresh,
          dialed |-> TRUE, closes |-> {}, created |-> TRUE]
    ELSE [pool |-> p, ret |-> NoClient, dialed |-> TRUE,
          closes |-> {}, created |-> FALSE]

\* GetClient between Lock and the deferred Unlock.  runOK: client.Run("true")
\* on a cached client succeeds; dialOK: NewClient succeeds; fresh: the client
\* NewClient would return.
GetClient(p, key, runOK, dialOK, fresh) ==
    LET hit     == p[key] # NoClient
        probeOK == hit /\ runOK /\ Usable(p[key])
        cleaned == [p EXCEPT ![key] = NoClient]
    IN  IF probeOK
        THEN [pool |-> p, ret |-> p[key], dialed |-> FALSE,
              closes |-> {}, created |-> FALSE]
        ELSE IF dialOK
        THEN [pool |-> [cleaned EXCEPT ![key] = fresh], ret |-> fresh,
              dialed |-> TRUE, closes |-> IF hit THEN {p[key]} ELSE {},
              created |-> TRUE]
        ELSE [pool |-> cleaned, ret |-> NoClient, dialed |-> TRUE,
              closes |-> IF hit THEN {p[key]} ELSE {}, created |-> FALSE]

\* faulty variant of CloseAll: the clients are closed but stay in the map
CloseAllNoDelete(p) ==
    [pool |-> p,
     closes |-> {p[k] : k \in {x \in Keys : p[x] # NoClient}}]

\* CloseAll between Lock and the deferred Unlock: the map after the loop and
\* the clients the loop closed
CloseAll(p) ==
    [pool |-> [k \in Keys |-> NoClient],
     closes |-> {p[k] : k \in {x \in Keys : p[x] # NoClient}}]

\* faulty variant of RemoveClient: the client is closed but stays in the map
RemoveClientNoDelete(p, key) ==
    [pool |-> p, closes |-> IF p[key] # NoClient THEN {p[key]} ELSE {}]

\* RemoveClient between Lock and the deferred Unlock
RemoveClient(p, key) ==
    IF p[key] # NoClient
    THEN [pool |-> [p EXCEPT ![key] = NoClient], closes |-> {p[key]}]
    ELSE [pool |-> p, closes |-> {}]

\* GetClient of the pool that has RemoveClient: a cached client is returned
\* as it is
GetClientCached(p, key, dialOK, fresh) ==
    IF p[key] # NoClient
    THEN [pool |-> p, ret |-> p[key], dialed |-> FALSE, created |-> FALSE]
    ELSE IF dialOK
    THEN [pool |-> [p EXCEPT ![key] = fresh], ret |-> fresh,
          dialed |-> TRUE, created |-> TRUE]
    ELSE [pool |-> p, ret |-> NoClient, dialed |-> TRUE, created |-> FALSE]

\* no call yet
NoPoolCall ==
    [op |-> "none", key |-> KeyServer, before |-> [k \in Keys |-> NoClient],
     closedBefore |-> {}, ret |-> NoClient, dialed |-> FALSE,
     afterRemove |-> FALSE, removed |-> {}]

Cached(p) == {p[k] : k \in {x \in Keys : p[x] # NoClient}}

\* the effect of one CloseAll call on the pool and its history
DoCloseAll ==
    LET r == CloseAll(pool)
    IN  /\ pool' = r.pool
        /\ closed' = closed \cup r.closes
        /\ closeAllCalls' = closeAllCalls + 1
        /\ lastGot' = [k \in Keys |-> NoClient]
        /\ purged' = [k \in Keys |-> purged[k] \/ pool[k] # NoClient]
        /\ lastCloseAll' = [ran |-> TRUE, cached |-> Cached(pool)]
        /\ UNCHANGED <<nextId, poolMu, call>>

(***************************************************************************)
(* internal/tui/views/sync.go: SyncModel.Update                            *)
(*                                                                         *)
(* Each handler maps the model to [m |-> the model returned,               *)
(* cmd |-> the step whose runStep command is returned, NoCmd for none].    *)
(***************************************************************************)
NoCmd == -1

\* faulty variant of OnKeyEnter: the step is not checked
OnKeyEnterAnyStep(model) ==
    IF model.dryRun
    THEN [m |-> [model EXCEPT !.dryRun = FALSE, !.step = stepUploading,
                              !.uploadServerStatus = taskRunning,
                              !.uploadClientStatus = taskRunning],
          cmd |-> stepUploading]
    ELSE [m |-> model, cmd |-> NoCmd]

\* case "enter", "s"
OnKeyEnter(model) ==
    IF model.dryRun /\ model.step = stepComplete
    THEN [m |-> [model EXCEPT !.dryRun = FALSE, !.step = stepUploading,
                              !.uploadServerStatus = taskRunning,
                              !.uploadClientStatus = taskRunning],
          cmd |-> stepUploading]
    ELSE [m |-> model, cmd |-> NoCmd]

\* case stepCompleteMsg
OnStepComplete(model, msg, cfg) ==
    LET m1 == [model EXCEPT
                 !.services   = IF msg.services # NoServices
                                THEN msg.services ELSE @,
                 !.serviceRows = IF msg.serviceRows # NoRows
                                 THEN msg.serviceRows ELSE @,
                 !.serverTOML = IF msg.serverTOML # NoTOML
                                THEN msg.serverTOML ELSE @,
                 !.clientTOML = IF msg.clientTOML # NoTOML
                                THEN msg.clientTOML ELSE @]
        m2 == CASE msg.step = stepParsing ->
                     [m1 EXCEPT !.parseStatus = taskDone,
                                !.generateStatus = taskRunning]
                [] msg.step = stepGenerating ->
                     [m1 EXCEPT !.generateStatus = taskDone]
                [] msg.step = stepUploading ->
                     [m1 EXCEPT !.uploadServerStatus = taskDone,
                                !.uploadClientStatus = taskDone,
                                !.restartServerStatus = taskRunning,
                                !.restartClientStatus = taskRunning,
                                !.restartCaddyStatus =
                                    IF cfg.caddyComposeDir THEN taskRunning ELSE @]
                [] msg.step = stepRestarting ->
                     [m1 EXCEPT !.restartServerStatus = taskDone,
                                !.restartClientStatus = taskDone,
                                !.restartCaddyStatus =
                                    IF cfg.caddyComposeDir THEN taskDone ELSE @]
                [] OTHER -> m1
        m3 == [m2 EXCEPT !.step = msg.step + 1]
    IN  IF m3.dryRun /\ m3.step > stepGenerating
        THEN [m |-> [m3 EXCEPT !.step = stepComplete], cmd |-> NoCmd]
        ELSE IF m3.step < stepComplete
        THEN [m |-> m3, cmd |-> m3.step]
        ELSE [m |-> m3, cmd |-> NoCmd]

\* faulty variant of OnSyncErr: the failed pipeline starts over
OnSyncErrRetry(model, msg) ==
    [m |-> [model EXCEPT !.step = stepFailed, !.err = msg.err],
     cmd |-> stepParsing]

\* case syncErrMsg
OnSyncErr(model, msg) ==
    LET m1 == [model EXCEPT !.step = stepFailed, !.err = msg.err]
    IN  [m |-> CASE msg.stepName = "Parse" ->
                      [m1 EXCEPT !.parseStatus = taskFailed]
                 [] msg.stepName = "Generate" ->
                      [m1 EXCEPT !.generateStatus = taskFailed]
                 [] OTHER -> m1,
         cmd |-> NoCmd]

\* the if / else if that turns a pair of result flags into a task status
Marked(ok, failed, old) ==
    IF ok THEN taskDone ELSE IF failed THEN taskFailed ELSE old

\* faulty variant of OnUploadResult: one failed upload marks both uploads
OnUploadResultAllFailed(model, msg) ==
    [m |-> [model EXCEPT !.step = stepFailed, !.err = msg.err,
                         !.uploadServerStatus = taskFailed,
                         !.uploadClientStatus = taskFailed],
     cmd |-> NoCmd]

\* faulty variant of OnUploadResult: the statuses are set and the pipeline
\* goes on to Restarting
OnUploadResultContinue(model, msg) ==
    [m |-> [model EXCEPT
              !.step = stepRestarting, !.err = msg.err,
              !.uploadServerStatus = Marked(msg.serverOK, msg.serverFailed, @),
              !.uploadClientStatus = Marked(msg.clientOK, msg.clientFailed, @)],
     cmd |-> stepRestarting]

\* case uploadResultMsg
OnUploadResult(model, msg) ==
    [m |-> [model EXCEPT
              !.step = stepFailed, !.err = msg.err,
              !.uploadServerStatus = Marked(msg.serverOK, msg.serverFailed, @),
              !.uploadClientStatus = Marked(msg.clientOK, msg.clientFailed, @)],
     cmd |-> NoCmd]

\* case restartResultMsg
OnRestartResult(model, msg) ==
    [m |-> [model EXCEPT
              !.step = stepFailed, !.err = msg.err,
              !.restartServerStatus = Marked(msg.serverOK, msg.serverFailed, @),
              !.restartClientStatus = Marked(msg.clientOK, msg.clientFailed, @),
              !.restartCaddyStatus  = Marked(msg.caddyOK, msg.caddyFailed, @)],
     cmd |-> NoCmd]

\* the type switch of Update over the messages a command returns
Update(model, msg, cfg) ==
    CASE msg.type = "stepComplete"  -> OnStepComplete(model, msg, cfg)
      [] msg.type = "syncErr"       -> OnSyncErr(model, msg)
      [] msg.type = "uploadResult"  -> OnUploadResult(model, msg)
      [] msg.type = "restartResult" -> OnRestartResult(model, msg)
      [] OTHER                      -> [m |-> model, cmd |-> NoCmd]

(***************************************************************************)
(* Messages                                                                *)
(***************************************************************************)
StepCompleteMsg(step, services, serverTOML, clientTOML) ==
    [type |-> "stepComplete", step |-> step, services |-> services,
     serviceRows |-> NoRows,
     serverTOML |-> serverTOML, clientTOML |-> clientTOML]

SyncErrMsg(stepName, err) ==
    [type |-> "syncErr", stepName |-> stepName, err |-> err]

\* faulty variant of UploadOutcome: the collected error is not looked at
UploadOutcomeIgnoringErr(r) ==
    StepCompleteMsg(stepUploading, NoServices, NoTOML, NoTOML)

\* the message runStep returns once the upload collector has its results
UploadOutcome(r) ==
    IF r.firstErr # ""
    THEN [type |-> "uploadResult",
          serverOK |-> r.serverOK, serverFailed |-> r.serverFailed,
          clientOK |-> r.clientOK, clientFailed |-> r.clientFailed,
          err |-> r.firstErr]
    ELSE StepCompleteMsg(stepUploading, NoServices, NoTOML, NoTOML)

\* the message runStep returns once the restart collector has its results
RestartOutcome(r) ==
    IF r.firstErr # ""
    THEN [type |-> "restartResult",
          serverOK |-> r.serverOK, serverFailed |-> r.serverFailed,
          clientOK |-> r.clientOK, clientFailed |-> r.clientFailed,
          caddyOK |-> r.caddyOK, caddyFailed |-> r.caddyFailed,
          err |-> r.firstErr]
    ELSE StepCompleteMsg(stepRestarting, NoServices, NoTOML, NoTOML)

\* faulty variant of ParseOutcome: every row is marked as remote
ParseOutcomeAllRemote(r) ==
    IF r.localErr
    THEN SyncErrMsg("Parse", "local")
    ELSE [StepCompleteMsg(stepParsing, r.localServices, NoTOML, NoTOML)
            EXCEPT !.serviceRows = [services |-> r.localServices,
                                    isRemote |-> TRUE]]

\* the message runStep returns once both parse results are in: the error of
\* the local parse, else the local services and a row for each of them
ParseOutcome(r) ==
    IF r.localErr
    THEN SyncErrMsg("Parse", "local")
    ELSE [StepCompleteMsg(stepParsing, r.localServices, NoTOML, NoTOML)
            EXCEPT !.serviceRows =
                     IF r.localServices = NoServices THEN NoRows
                     ELSE [services |-> r.localServices,
                           isRemote |-> r.remoteServices = r.localServices]]

\* faulty variant of CollectUpload: a later error replaces the first
CollectUploadLastErr(r, res) ==
    IF res.name = "server"
    THEN IF ~res.err
         THEN [r EXCEPT !.got = @ + 1, !.serverOK = TRUE]
         ELSE [r EXCEPT !.got = @ + 1, !.serverFailed = TRUE,
                        !.firstErr = res.name]
    ELSE IF ~res.err
         THEN [r EXCEPT !.got = @ + 1, !.clientOK = TRUE]
         ELSE [r EXCEPT !.got = @ + 1, !.clientFailed = TRUE,
                        !.firstErr = res.name]

\* one iteration of the upload collector loop: r.name == "server", else client
CollectUpload(r, res) ==
    IF res.name = "server"
    THEN IF ~res.err
         THEN [r EXCEPT !.got = @ + 1, !.serverOK = TRUE]
         ELSE [r EXCEPT !.got = @ + 1, !.serverFailed = TRUE,
                        !.firstErr = IF @ = "" THEN res.name ELSE @]
    ELSE IF ~res.err
         THEN [r EXCEPT !.got = @ + 1, !.clientOK = TRUE]
         ELSE [r EXCEPT !.got = @ + 1, !.clientFailed = TRUE,
                        !.firstErr = IF @ = "" THEN res.name ELSE @]

\* one iteration of the restart collector loop: switch r.name
CollectRestart(r, res) ==
    LET first == IF r.firstErr = "" THEN res.name ELSE r.firstErr
    IN  CASE res.name = "server" ->
               IF ~res.err
               THEN [r EXCEPT !.got = @ + 1, !.serverOK = TRUE]
               ELSE [r EXCEPT !.got = @ + 1, !.serverFailed = TRUE,
                              !.firstErr = first]
          [] res.name = "client" ->
               IF ~res.err
               THEN [r EXCEPT !.got = @ + 1, !.clientOK = TRUE]
               ELSE [r EXCEPT !.got = @ + 1, !.clientFailed = TRUE,
                              !.firstErr = first]
          [] res.name = "caddy" ->
               IF ~res.err
               THEN [r EXCEPT !.got = @ + 1, !.caddyOK = TRUE]
               ELSE [r EXCEPT !.got = @ + 1, !.caddyFailed = TRUE,
                              !.firstErr = first]
          [] OTHER -> [r EXCEPT !.got = @ + 1]

\* one iteration of the parse collector loop
CollectParse(r, res) ==
    IF res.name = "local"
    THEN [r EXCEPT !.got = @ + 1, !.localErr = res.err,
                   !.localServices = res.services]
    ELSE [r EXCEPT !.got = @ + 1, !.remoteServices = res.services]

\* taskCount: the number of results the collector of a step waits for
TaskCount(step, cfg) ==
    CASE step = stepRestarting -> IF cfg.caddyComposeDir THEN 3 ELSE 2
      [] step \in {stepParsing, stepUploading} -> 2
      [] OTHER -> 0

(***************************************************************************)
(* The Bubbletea program: commands and message delivery                    *)
(***************************************************************************)
\* runStep(step) on the model `model`: the closure captures the model it was
\* called on, makes resultCh and starts the goroutines of the step
Launch(step, model) ==
    /\ run' = [NoRun EXCEPT !.active = TRUE, !.step = step,
                            !.services = model.services,
                            !.serverTOML = model.serverTOML,
                            !.clientTOML = model.clientTOML]
    /\ resultCh' = <<>>
    /\ pc' = [t \in TaskIds |->
                IF t \in StageTasks(step, config) THEN "start" ELSE pc[t]]
    /\ launched' = Append(launched, step)

\* a handler's result put in place: the model, and the command if any
Apply(r) ==
    /\ m' = r.m
    /\ IF r.cmd # NoCmd
       THEN Launch(r.cmd, r.m)
       ELSE UNCHANGED <<run, resultCh, pc, launched>>

\* cmd.Execute reaches p.Run: SyncModel.Init returns runStep(stepParsing)
StartProgram ==
    /\ Running /\ mainPc = "execute"
    /\ mainPc' = "tui"
    /\ Launch(stepParsing, m)
    /\ UNCHANGED <<m, config, sideVars, msgs, held, opsDone, sent, outcome, failOrder, unitInactive,
                   uploaded, parseRuns, genRuns, commits, endKeys, sigPc,
                   exitCode, closeAllCalls>>
    /\ UNCHANGED poolVars

\* the program hands the message of a finished command to Update
Deliver ==
    /\ Running /\ mainPc = "tui"
    /\ msgs # <<>>
    /\ msgs' = Tail(msgs)
    /\ Apply(Update(m, Head(msgs), config))
    /\ UNCHANGED <<config, sideVars, held, opsDone, sent, outcome, failOrder, unitInactive, uploaded,
                   parseRuns, genRuns, commits, endKeys>>
    /\ UNCHANGED poolVars
    /\ UNCHANGED procVars

\* the user presses enter or s
KeyEnter ==
    /\ Running /\ mainPc = "tui"
    /\ Apply(OnKeyEnter(m))
    /\ commits' = IF OnKeyEnter(m).cmd # NoCmd THEN commits + 1 ELSE commits
    /\ endKeys' = IF Ended(m) THEN 1 ELSE endKeys
    /\ UNCHANGED <<config, sideVars, msgs, held, opsDone, sent, outcome, failOrder, unitInactive,
                   uploaded, parseRuns, genRuns>>
    /\ UNCHANGED poolVars
    /\ UNCHANGED procVars

(***************************************************************************)
(* runStep: the goroutines of a stage                                      *)
(***************************************************************************)
\* faulty variant of Send: an error path returns without sending
SendUnlessErr(t, err, services) ==
    /\ resultCh' = IF err THEN resultCh
                   ELSE Append(resultCh, [name |-> ResultName(t), err |-> err,
                                          services |-> services])
    /\ sent' = [sent EXCEPT ![t] = IF err THEN @ ELSE @ + 1]
    /\ outcome' = [outcome EXCEPT ![t] = IF err THEN "fail" ELSE "ok"]
    /\ failOrder' = failOrder
    /\ pc' = [pc EXCEPT ![t] = "done"]

\* resultCh <- result, then return
Send(t, err, services) ==
    /\ resultCh' = Append(resultCh,
                          [name |-> ResultName(t), err |-> err,
                           services |-> services])
    /\ sent' = [sent EXCEPT ![t] = @ + 1]
    /\ outcome' = [outcome EXCEPT ![t] = IF err THEN "fail" ELSE "ok"]
    /\ failOrder' = IF err THEN Append(failOrder, t) ELSE failOrder
    /\ pc' = [pc EXCEPT ![t] = "done"]

\* the local goroutine of stepParsing: parser.ParseFile, then send.
\* readOK: the file could be opened (its parse then returns services)
ParseLocal(readOK) ==
    /\ Running /\ pc["parseLocal"] = "start"
    /\ parseRuns' = parseRuns + 1
    /\ Send("parseLocal", ~readOK,
            IF readOK THEN parseRuns + 1 ELSE NoServices)
    /\ UNCHANGED <<m, config, sideVars, run, msgs, held, opsDone, unitInactive, uploaded,
                   genRuns, commits, endKeys, launched>>
    /\ UNCHANGED poolVars
    /\ UNCHANGED procVars

\* the remote goroutine of stepParsing when no remote Caddyfile is configured
ParseRemoteSkip ==
    /\ Running /\ pc["parseRemote"] = "start"
    /\ ~config.caddyfile
    /\ Send("parseRemote", FALSE, NoServices)
    /\ UNCHANGED <<m, config, sideVars, run, msgs, held, opsDone, unitInactive, uploaded,
                   parseRuns, genRuns, commits, endKeys, launched>>
    /\ UNCHANGED poolVars
    /\ UNCHANGED procVars

\* does goroutine t call ssh.GetClient as its next statement
CallsGetClient(t) ==
    /\ pc[t] = "start"
    /\ t # "parseLocal"
    /\ t = "parseRemote" => config.caddyfile

\* ssh.GetClient: poolMu.Lock()
GetClientLock(t) ==
    /\ Running /\ CallsGetClient(t)
    /\ poolMu = NoHolder
    /\ poolMu' = t
    /\ pc' = [pc EXCEPT ![t] = "locked"]
    /\ UNCHANGED <<held, opsDone, sent, outcome, failOrder, unitInactive, uploaded>>
    /\ UNCHANGED uiVars
    /\ UNCHANGED <<config, sideVars, pool, closed, nextId, call, lastGot,
                   purged, lastCloseAll>>
    /\ UNCHANGED procVars

\* ssh.GetClient from the lookup to the return (the deferred Unlock included),
\* and the caller's error branch.  The remote parse goroutine sends a result
\* without error when it cannot connect.
GetClientReturn(t, runOK, dialOK) ==
    /\ Running /\ pc[t] = "locked" /\ poolMu = t
    /\ LET key == KeyOf(t)
           canDial == dialOK /\ nextId[key] < MaxClients
           r == GetClient(pool, key, runOK, canDial,
                          ClientId(key, nextId[key] + 1))
       IN  /\ pool' = r.pool
           /\ closed' = closed \cup r.closes
           /\ nextId' = IF r.created THEN [nextId EXCEPT ![key] = @ + 1]
                        ELSE nextId
           /\ poolMu' = NoHolder
           /\ call' = [call EXCEPT ![t] =
                          [done |-> TRUE, prev |-> lastGot[KeyOf(t)],
                           probeOK |-> runOK /\ Usable(lastGot[KeyOf(t)]),
                           ret |-> r.ret, dialed |-> r.dialed,
                           dialOK |-> r.dialed /\ canDial,
                           purged |-> purged[KeyOf(t)],
                           retClosed |-> r.ret \in closed']]
           /\ lastGot' = [lastGot EXCEPT ![KeyOf(t)] = r.ret]
           /\ purged' = [purged EXCEPT ![KeyOf(t)] = FALSE]
           /\ lastCloseAll' = [ran |-> FALSE, cached |-> {}]
           /\ IF r.ret = NoClient
              THEN /\ Send(t, t # "parseRemote", NoServices)
                   /\ UNCHANGED held
              ELSE /\ held' = [held EXCEPT ![t] = r.ret]
                   /\ pc' = [pc EXCEPT ![t] = "ready"]
                   /\ UNCHANGED <<resultCh, sent, outcome, failOrder>>
    /\ UNCHANGED <<m, config, sideVars, run, msgs, opsDone, unitInactive, uploaded,
                   parseRuns, genRuns, commits, endKeys, launched>>
    /\ UNCHANGED procVars

\* the upload goroutine of the server reads the local Caddyfile before its
\* second upload; os.ReadFile fails
ReadFileFails ==
    /\ Running /\ pc["uploadServer"] = "ready" /\ opsDone["uploadServer"] = 1
    /\ Send("uploadServer", TRUE, NoServices)
    /\ UNCHANGED <<m, config, sideVars, run, msgs, held, opsDone, unitInactive, uploaded,
                   parseRuns, genRuns, commits, endKeys, launched>>
    /\ UNCHANGED poolVars
    /\ UNCHANGED procVars

\* a goroutine issues its next remote operation (DownloadFile, UploadContent,
\* RestartService, RestartDockerCompose) through the client it holds
BeginOp(t) ==
    /\ Running /\ pc[t] = "ready"
    /\ pc' = [pc EXCEPT ![t] = "inop"]
    /\ UNCHANGED <<held, opsDone, sent, outcome, failOrder, unitInactive, uploaded>>
    /\ UNCHANGED uiVars
    /\ UNCHANGED <<config, sideVars>>
    /\ UNCHANGED poolVars
    /\ UNCHANGED procVars

\* what the first upload of a goroutine writes: the artifact of the model the
\* command captured
Artifact(t, r) ==
    IF t = "uploadServer" THEN r.serverTOML ELSE r.clientTOML

\* the remote operation returns.  ok: it succeeded (only possible on a
\* client that is not closed); active: a restarted unit came back active
EndOp(t, ok, active) ==
    /\ Running /\ pc[t] = "inop"
    /\ ok => Usable(held[t])
    /\ (~ok \/ StageOf(t) # stepRestarting) => active
    /\ uploaded' = IF ok /\ StageOf(t) = stepUploading /\ opsDone[t] = 0
                   THEN [uploaded EXCEPT ![t] = Artifact(t, run)]
                   ELSE uploaded
    /\ unitInactive' = IF ok /\ ~active THEN unitInactive \cup {t}
                       ELSE unitInactive
    /\ IF ~ok
       THEN /\ Send(t, t # "parseRemote", NoServices)
            /\ UNCHANGED opsDone
       ELSE /\ opsDone' = [opsDone EXCEPT ![t] = @ + 1]
            /\ IF opsDone[t] + 1 = NumOps(t, config)
               THEN Send(t, FALSE, NoServices)
               ELSE /\ pc' = [pc EXCEPT ![t] = "ready"]
                    /\ UNCHANGED <<resultCh, sent, outcome, failOrder>>
    /\ UNCHANGED <<m, config, sideVars, run, msgs, held, parseRuns, genRuns, commits, endKeys,
                   launched>>
    /\ UNCHANGED poolVars
    /\ UNCHANGED procVars

\* the remote goroutine of stepParsing: DownloadFile succeeded and
\* parser.ParseContent found the services of the local document in it
RemoteParsed ==
    /\ Running /\ pc["parseRemote"] = "inop"
    /\ Usable(held["parseRemote"])
    /\ opsDone' = [opsDone EXCEPT !["parseRemote"] = @ + 1]
    /\ Send("parseRemote", FALSE, SameAsLocal)
    /\ UNCHANGED <<m, config, sideVars, run, msgs, held, unitInactive, uploaded,
                   parseRuns, genRuns, commits, endKeys, launched>>
    /\ UNCHANGED poolVars
    /\ UNCHANGED procVars

(***************************************************************************)
(* runStep: the collecting side of a command                               *)
(***************************************************************************)
\* the message a collector returns after its last receive
StageOutcome(step, r) ==
    CASE step = stepParsing   -> ParseOutcome(r)
      [] step = stepUploading -> UploadOutcome(r)
      [] OTHER                -> RestartOutcome(r)

\* one iteration of the collector of a step
CollectOne(step, r, res) ==
    CASE step = stepParsing   -> CollectParse(r, res)
      [] step = stepUploading -> CollectUpload(r, res)
      [] OTHER                -> CollectRestart(r, res)

\* the collector loop, for i := 0; i < taskCount; i++ { r := <-resultCh ... },
\* over the results in the order they were sent
RECURSIVE CollectLoop(_, _, _)
CollectLoop(step, r, q) ==
    IF q = <<>> THEN r
    ELSE CollectLoop(step, CollectOne(step, r, Head(q)), Tail(q))

\* The collector of the command in flight.  resultCh is buffered for
\* taskCount results, so no goroutine ever waits for the collector and when a
\* result is received is not observable: the loop is taken in one step, once
\* the taskCount results it waits for have been sent.  The command then
\* returns its message to the program.
Collect ==
    /\ Running /\ run.active
    /\ run.step \in {stepParsing, stepUploading, stepRestarting}
    /\ Len(resultCh) = TaskCount(run.step, config)
    /\ resultCh' = <<>>
    /\ LET r == CollectLoop(run.step, run, resultCh)
       IN  /\ run' = [r EXCEPT !.active = FALSE]
           /\ msgs' = Append(msgs, StageOutcome(run.step, r))
    /\ UNCHANGED <<m, config, sideVars, launched, parseRuns, genRuns, commits, endKeys>>
    /\ UNCHANGED taskVars
    /\ UNCHANGED poolVars
    /\ UNCHANGED procVars

\* runStep(stepGenerating): GenerateServerTOML, then GenerateClientTOML.
\* failAt: which of the two returned an error, "" for none
Generate(failAt) ==
    /\ Running /\ run.active /\ run.step = stepGenerating
    /\ genRuns' = genRuns + 1
    /\ run' = [run EXCEPT !.active = FALSE]
    /\ msgs' = Append(msgs,
          IF failAt # ""
          THEN SyncErrMsg("Generate", failAt)
          ELSE StepCompleteMsg(stepGenerating, NoServices,
                               [kind |-> "server", gen |-> genRuns + 1],
                               [kind |-> "client", gen |-> genRuns + 1]))
    /\ outcome' = [outcome EXCEPT !["generate"] =
                                    IF failAt # "" THEN "fail" ELSE "ok"]
    /\ UNCHANGED <<m, config, sideVars, resultCh, launched, parseRuns, commits, endKeys>>
    /\ UNCHANGED <<pc, held, opsDone, sent, failOrder, unitInactive, uploaded>>
    /\ UNCHANGED poolVars
    /\ UNCHANGED procVars

(***************************************************************************)
(* internal/parser: the documents                                          *)
(*                                                                         *)
(* A document is a sequence of lines.  A line is described by what Parse   *)
(* sees of it after strings.TrimSpace:                                     *)
(*   kind   "blank"  empty after trimming                                  *)
(*          "svc"    serviceCommentRe matches; name and addr are its       *)
(*                   groups                                                *)
(*          "head"   serviceCommentRe does not match, domainBlockRe does;  *)
(*                   pieces is its group split at the commas               *)
(*          "text"   neither matches                                       *)
(*   port            the digits reverseProxyRe captures, NoPort if none    *)
(*   opens, closes   strings.Count(line, "{"), strings.Count(line, "}")    *)
(*   bytes           the length of the raw line                            *)
(* A piece of text is a string with or without white space around it.      *)
(***************************************************************************)
\* the largest token a bufio.Scanner with its default buffer returns
MaxScanTokenSize == 65536

NoPort == <<>>

Piece(text, pad) == [text |-> text, pad |-> pad]

\* strings.TrimSpace
TrimSpace(piece) == piece.text

Blank ==
    [kind |-> "blank", name |-> "", addr |-> Piece("", FALSE), pieces |-> <<>>,
     port |-> NoPort, opens |-> 0, closes |-> 0, bytes |-> 0]

\* # name: addr
Comment(name, addr) ==
    [Blank EXCEPT !.kind = "svc", !.name = name, !.addr = addr, !.bytes = 24]

\* piece, piece, ... {
Header(pieces) ==
    [Blank EXCEPT !.kind = "head", !.pieces = pieces, !.opens = 1, !.bytes = 24]

\* any other line
Text(port, opens, closes) ==
    [Blank EXCEPT !.kind = "text", !.port = port, !.opens = opens,
                  !.closes = closes, !.bytes = 32]

\* a line too long for the scanner
LongLine == [Text(NoPort, 0, 0) EXCEPT !.bytes = MaxScanTokenSize]

Names == {"a", "b"}
Other(name) == IF name = "a" THEN "b" ELSE "a"
AddrOf(name) == Piece(IF name = "a" THEN "10.0.0.1:80" ELSE "10.0.0.2:80", FALSE)
PortOf(name) == IF name = "a" THEN <<8, 0, 0, 1>> ELSE <<8, 0, 0, 2>>

\* digits that do not fit an int
HugePort == [i \in 1..20 |-> 9]

\* block headers: three names (with white space and an empty piece between
\* the commas), and two different single names
Headers ==
    {<<Piece("d1", FALSE), Piece("d2", TRUE), Piece("", TRUE), Piece("d3", TRUE)>>,
     <<Piece("e1", FALSE)>>,
     <<Piece("f1", TRUE)>>}

\* the lines of a document drawn line by line
LineAlphabet ==
    {Blank,
     Comment("a", AddrOf("a")),
     Comment("b", AddrOf("b")),
     Header(<<Piece("e1", FALSE)>>),
     Text(PortOf("a"), 0, 0),
     Text(HugePort, 0, 0),
     Text(PortOf("a"), 1, 0),
     Text(NoPort, 0, 1),
     LongLine}

ShortDocs == UNION {[1..n -> LineAlphabet] : n \in 0..MaxLines}

\* an annotated block: the annotation, the header, the reverse_proxy line,
\* for `inner` an annotation of the other name and its reverse_proxy line
\* inside the same block, and the closing brace
Blocks == [name : Names, header : Headers, inner : BOOLEAN]

BlockLines(b) ==
    <<Comment(b.name, AddrOf(b.name)), Header(b.header),
      Text(PortOf(b.name), 0, 0)>>
    \o (IF b.inner
        THEN <<Comment(Other(b.name), AddrOf(Other(b.name))),
               Text(PortOf(Other(b.name)), 0, 0)>>
        ELSE <<>>)
    \o <<Text(NoPort, 0, 1)>>

RECURSIVE Flatten(_)
Flatten(bs) ==
    IF bs = <<>> THEN <<>> ELSE BlockLines(Head(bs)) \o Flatten(Tail(bs))

BlockDocs == {Flatten(bs) : bs \in UNION {[1..n -> Blocks] : n \in 1..MaxBlocks}}

\* a block whose annotation address and reverse_proxy port are chosen
\* independently of its name, so that a name can come back with another
\* address or another port
Variants ==
    [name : Names, addr : {AddrOf(n) : n \in Names},
     port : {PortOf(n) : n \in Names}, header : Headers]

VariantLines(b) ==
    <<Comment(b.name, b.addr), Header(b.header), Text(b.port, 0, 0),
      Text(NoPort, 0, 1)>>

RECURSIVE FlattenVariants(_)
FlattenVariants(bs) ==
    IF bs = <<>> THEN <<>>
    ELSE VariantLines(Head(bs)) \o FlattenVariants(Tail(bs))

VariantDocs ==
    {FlattenVariants(bs) : bs \in UNION {[1..n -> Variants] : n \in 1..MaxVariants}}

\* a closing brace that closes nothing, or a matched pair of braces, in
\* front of one annotated block
BraceLines == {Text(NoPort, 0, 1), Text(NoPort, 1, 1)}

SingleBlocks == {b \in Blocks : ~b.inner}

BraceDocs == {<<l>> \o BlockLines(b) : l \in BraceLines, b \in SingleBlocks}

\* an annotation, a site header, one or two nested lines of the form of a
\* header, the reverse_proxy line, and closing braces for some or all of
\* the braces opened
NestedDocs ==
    {<<Comment(n, AddrOf(n))>> \o [i \in 1..Len(hs) |-> Header(hs[i])]
       \o <<Text(PortOf(n), 0, 0)>> \o [i \in 1..c |-> Text(NoPort, 0, 1)] :
       n \in Names, hs \in [1..2 -> Headers] \cup [1..3 -> Headers],
       c \in 1..3}

\* an annotation, a line that is neither an annotation nor a header and
\* leaves the brace depth at zero, then a well-formed block
SeparatorLines ==
    {Text(NoPort, 0, 0), Text(NoPort, 1, 1)}
        \cup {Text(PortOf(n), 0, 0) : n \in Names}

SeparatedDocs ==
    {<<Comment(n, AddrOf(n)), l, Header(h), Text(PortOf(n), 0, 0),
       Text(NoPort, 0, 1)>> :
       n \in Names, l \in SeparatorLines, h \in Headers}

Docs ==
    ShortDocs \cup BlockDocs \cup VariantDocs \cup BraceDocs \cup NestedDocs
        \cup SeparatedDocs

(***************************************************************************)
(* internal/parser: slices, strconv.Atoi                                   *)
(*                                                                         *)
(* A slice is a window on an array of the heap: [arr, len, cap].  The heap *)
(* is the sequence of the arrays allocated so far.                         *)
(***************************************************************************)
NilSlice == [arr |-> 0, len |-> 0, cap |-> 0]

\* the elements of a slice
ReadSlice(heap, s) == [i \in 1..s.len |-> heap[s.arr][i]]

\* the capacity append gives the new array when the old one is too small
\* (runtime.growslice of the gc toolchain, for capacities below its
\* doubling threshold)
GrowCap(oldCap, newLen) ==
    IF newLen > 2 * oldCap THEN newLen ELSE 2 * oldCap

\* append(s, xs...): in place when the capacity suffices, else into a new
\* array; the heap and the slice returned
AppendSlice(heap, s, xs) ==
    LET n == s.len + Len(xs)
    IN  IF Len(xs) = 0
        THEN [heap |-> heap, slice |-> s]
        ELSE IF n <= s.cap
        THEN [heap |-> [heap EXCEPT ![s.arr] =
                          [i \in 1..s.cap |->
                             IF i > s.len /\ i <= n THEN xs[i - s.len]
                             ELSE @[i]]],
              slice |-> [s EXCEPT !.len = n]]
        ELSE LET c == GrowCap(s.cap, n)
             IN  [heap |-> Append(heap,
                             [i \in 1..c |->
                                IF i <= s.len THEN heap[s.arr][i]
                                ELSE IF i <= n THEN xs[i - s.len]
                                ELSE ""]),
                  slice |-> [arr |-> Len(heap) + 1, len |-> n, cap |-> c]]

\* the largest int, in decimal digits
MaxInt == <<9, 2, 2, 3, 3, 7, 2, 0, 3, 6, 8, 5, 4, 7, 7, 5, 8, 0, 7>>

RECURSIVE StripZeros(_)
StripZeros(ds) ==
    IF ds # <<>> /\ Head(ds) = 0 THEN StripZeros(Tail(ds)) ELSE ds

\* is the number with digits x greater than the one with digits y (of the
\* same length)
RECURSIVE DigitsGreater(_, _)
DigitsGreater(x, y) ==
    IF x = <<>> THEN FALSE
    ELSE IF Head(x) # Head(y) THEN Head(x) > Head(y)
    ELSE DigitsGreater(Tail(x), Tail(y))

\* strconv.Atoi on a string of digits: the value, in decimal digits without
\* leading zeros, and whether an error is returned.  Out of range, Atoi
\* returns the largest int together with the error.
Atoi(ds) ==
    LET v == StripZeros(ds)
    IN  IF Len(v) > Len(MaxInt) \/ (Len(v) = Len(MaxInt) /\ DigitsGreater(v, MaxInt))
        THEN [val |-> MaxInt, err |-> TRUE]
        ELSE [val |-> IF v = <<>> THEN <<0>> ELSE v, err |-> FALSE]

(***************************************************************************)
(* internal/parser: Parse                                                  *)
(***************************************************************************)
NoPending == [set |-> FALSE, name |-> "", localAddr |-> ""]

\* the locals of Parse before the loop
NewParser ==
    [services |-> <<>>, serviceMap |-> <<>>, pending |-> NoPending,
     currentDomains |-> NilSlice, braceCount |-> 0, heap |-> <<>>,
     err |-> FALSE]

\* faulty variant of ParseStart: the map of the previous call is kept
ParseStartKeepingMap(prev) ==
    [NewParser EXCEPT !.serviceMap = prev.serviceMap, !.heap = prev.heap]

\* the locals Parse starts with, whatever an earlier call left behind
ParseStart(prev) == NewParser

\* the loop of parseDomains over the pieces between the commas
RECURSIVE parseDomainsLoop(_, _, _)
parseDomainsLoop(heap, domains, pieces) ==
    IF pieces = <<>> THEN [heap |-> heap, slice |-> domains]
    ELSE LET d == TrimSpace(Head(pieces))
             r == IF d # "" THEN AppendSlice(heap, domains, <<d>>)
                  ELSE [heap |-> heap, slice |-> domains]
         IN  parseDomainsLoop(r.heap, r.slice, Tail(pieces))

parseDomains(heap, pieces) == parseDomainsLoop(heap, NilSlice, pieces)

\* faulty variant of Record: a new record is put in front of the others
RecordInFront(st, port) ==
    LET name == st.pending.name
    IN  IF name \in DOMAIN st.serviceMap
        THEN LET r == AppendSlice(st.heap, st.serviceMap[name].Domains,
                                  ReadSlice(st.heap, st.currentDomains))
             IN  [st EXCEPT !.heap = r.heap,
                            !.serviceMap[name].Domains = r.slice]
        ELSE LET svc == [Name |-> name, LocalAddr |-> st.pending.localAddr,
                         VPSPort |-> port, Domains |-> st.currentDomains]
             IN  [st EXCEPT
                    !.serviceMap = [n \in DOMAIN @ \cup {name} |->
                                      IF n = name THEN svc ELSE @[n]],
                    !.services = <<svc>> \o @]

\* faulty variant of Record: the record of a name already in the map takes
\* the address and the port of the block at hand
RecordTakingLast(st, port) ==
    LET name == st.pending.name
    IN  IF name \in DOMAIN st.serviceMap
        THEN LET r == AppendSlice(st.heap, st.serviceMap[name].Domains,
                                  ReadSlice(st.heap, st.currentDomains))
             IN  [st EXCEPT !.heap = r.heap,
                            !.serviceMap[name].Domains = r.slice,
                            !.serviceMap[name].LocalAddr = st.pending.localAddr,
                            !.serviceMap[name].VPSPort = port]
        ELSE LET svc == [Name |-> name, LocalAddr |-> st.pending.localAddr,
                         VPSPort |-> port, Domains |-> st.currentDomains]
             IN  [st EXCEPT
                    !.serviceMap = [n \in DOMAIN @ \cup {name} |->
                                      IF n = name THEN svc ELSE @[n]],
                    !.services = Append(@, svc)]

\* the body of the reverse_proxy branch: extend the record of a name already
\* in the map, else make the record and append a copy of it
Record(st, port) ==
    LET name == st.pending.name
    IN  IF name \in DOMAIN st.serviceMap
        THEN LET r == AppendSlice(st.heap, st.serviceMap[name].Domains,
                                  ReadSlice(st.heap, st.currentDomains))
             IN  [st EXCEPT !.heap = r.heap,
                            !.serviceMap[name].Domains = r.slice]
        ELSE LET svc == [Name |-> name, LocalAddr |-> st.pending.localAddr,
                         VPSPort |-> port, Domains |-> st.currentDomains]
             IN  [st EXCEPT
                    !.serviceMap = [n \in DOMAIN @ \cup {name} |->
                                      IF n = name THEN svc ELSE @[n]],
                    !.services = Append(@, svc)]

\* faulty variant of ParseLine: the annotation and the domains are kept at
\* brace depth zero
ParseLineNoReset(st, line) ==
    IF line.kind = "blank" THEN st
    ELSE IF line.kind = "svc"
    THEN [st EXCEPT !.pending = [set |-> TRUE, name |-> line.name,
                                 localAddr |-> TrimSpace(line.addr)]]
    ELSE IF line.kind = "head"
    THEN LET r == parseDomains(st.heap, line.pieces)
         IN  [st EXCEPT !.heap = r.heap, !.currentDomains = r.slice,
                        !.braceCount = @ + 1]
    ELSE LET s1 == [st EXCEPT !.braceCount = @ + line.opens - line.closes]
         IN  IF s1.braceCount > 0 /\ s1.pending.set /\ line.port # NoPort
             THEN Record(s1, Atoi(line.port).val)
             ELSE s1

\* faulty variant of ParseLine: a header inside a block is counted as a
\* brace and leaves the domains of the site header
ParseLineSiteHeader(st, line) ==
    IF line.kind = "blank" THEN st
    ELSE IF line.kind = "svc"
    THEN [st EXCEPT !.pending = [set |-> TRUE, name |-> line.name,
                                 localAddr |-> TrimSpace(line.addr)]]
    ELSE IF line.kind = "head"
    THEN LET r == parseDomains(st.heap, line.pieces)
         IN  IF st.braceCount > 0 THEN [st EXCEPT !.braceCount = @ + 1]
             ELSE [st EXCEPT !.heap = r.heap, !.currentDomains = r.slice,
                             !.braceCount = @ + 1]
    ELSE LET s1 == [st EXCEPT !.braceCount = @ + line.opens - line.closes]
             s2 == IF s1.braceCount > 0 /\ s1.pending.set /\ line.port # NoPort
                   THEN Record(s1, Atoi(line.port).val)
                   ELSE s1
         IN  IF s2.braceCount = 0
             THEN [s2 EXCEPT !.pending = NoPending,
                             !.currentDomains = NilSlice]
             ELSE s2

\* one iteration of the loop of Parse
ParseLine(st, line) ==
    IF line.kind = "blank" THEN st
    ELSE IF line.kind = "svc"
    THEN [st EXCEPT !.pending = [set |-> TRUE, name |-> line.name,
                                 localAddr |-> TrimSpace(line.addr)]]
    ELSE IF line.kind = "head"
    THEN LET r == parseDomains(st.heap, line.pieces)
         IN  [st EXCEPT !.heap = r.heap, !.currentDomains = r.slice,
                        !.braceCount = @ + 1]
    ELSE LET s1 == [st EXCEPT !.braceCount = @ + line.opens - line.closes]
             s2 == IF s1.braceCount > 0 /\ s1.pending.set /\ line.port # NoPort
                   THEN Record(s1, Atoi(line.port).val)
                   ELSE s1
         IN  IF s2.braceCount = 0
             THEN [s2 EXCEPT !.pending = NoPending,
                             !.currentDomains = NilSlice]
             ELSE s2

\* for scanner.Scan() { ... }: Scan returns false at the end of the input and
\* at a line that does not fit its buffer, which scanner.Err() then reports
RECURSIVE Parse(_, _)
Parse(st, lines) ==
    IF lines = <<>> THEN st
    ELSE IF Head(lines).bytes >= MaxScanTokenSize THEN [st EXCEPT !.err = TRUE]
    ELSE Parse(ParseLine(st, Head(lines)), Tail(lines))

\* a Service by value
ServiceValue(heap, svc) ==
    [Name |-> svc.Name, LocalAddr |-> svc.LocalAddr, VPSPort |-> svc.VPSPort,
     Domains |-> ReadSlice(heap, svc.Domains)]

\* what Parse returns after the loop: the scan error, else the services,
\* each replaced by the record the map holds under its name
Returned(st) ==
    IF st.err THEN [services |-> <<>>, err |-> TRUE]
    ELSE [services |->
            [i \in 1..Len(st.services) |->
               ServiceValue(st.heap,
                  IF st.services[i].Name \in DOMAIN st.serviceMap
                  THEN st.serviceMap[st.services[i].Name]
                  ELSE st.services[i])],
          err |-> FALSE]

\* ParseContent(doc)
ParseContent ==
    /\ Len(results) < MaxCalls
    /\ LET st == Parse(ParseStart(parser), doc)
       IN  /\ parser' = st
           /\ results' = Append(results, Returned(st))
    /\ UNCHANGED doc
    /\ UNCHANGED <<syncVars, opsVars, appVars, poolLogVars, mergeVars, restartVars>>

(***************************************************************************)
(* internal/ssh: strings                                                   *)
(*                                                                         *)
(* A string is the sequence of its pieces: "NL" a line feed, "SP" a        *)
(* blank, "~" and "/" themselves, any other piece a run of characters      *)
(* without white space, '~' or '/'.                                        *)
(***************************************************************************)
White == {"NL", "SP"}

RECURSIVE TrimLeft(_)
TrimLeft(s) ==
    IF s # <<>> /\ Head(s) \in White THEN TrimLeft(Tail(s)) ELSE s

RECURSIVE TrimRight(_)
TrimRight(s) ==
    IF s # <<>> /\ s[Len(s)] \in White
    THEN TrimRight(SubSeq(s, 1, Len(s) - 1))
    ELSE s

\* strings.TrimSpace on a string of pieces
TrimSpaceSeq(s) == TrimRight(TrimLeft(s))

\* strings.Split(s, "\n"), cur being the line collected so far
RECURSIVE SplitFrom(_, _)
SplitFrom(s, cur) ==
    IF s = <<>> THEN <<cur>>
    ELSE IF Head(s) = "NL" THEN <<cur>> \o SplitFrom(Tail(s), <<>>)
    ELSE SplitFrom(Tail(s), Append(cur, Head(s)))

Split(s) == SplitFrom(s, <<>>)

\* strings.Contains(s, sub)
Contains(s, sub) ==
    \E i \in 0..(Len(s) - Len(sub)) :
        \A j \in 1..Len(sub) : s[i + j] = sub[j]

\* strings.ToLower on the State values of the model
ToLower(x) == IF x \in {"Running", "RUNNING"} THEN "running" ELSE x

\* filepath.Dir of a clean path
Dir(path) ==
    LET slashes == {i \in 1..Len(path) : path[i] = "/"}
        last == CHOOSE i \in slashes : \A j \in slashes : j <= i
    IN  IF slashes = {} THEN <<".">>
        ELSE IF last = 1 THEN <<"/">>
        ELSE SubSeq(path, 1, last - 1)

(***************************************************************************)
(* internal/ssh: Client.Run and the operations                             *)
(***************************************************************************)
Users == {"root", "deploy"}

\* remote paths: below the home directory, the home directory itself, an
\* absolute path, and a relative path with a '~' that does not lead
Paths ==
    {<<"~", "/", "c">>, <<"~">>, <<"/", "etc", "/", "c">>, <<"c", "/", "~">>}

\* Run: the standard output of the command, "" with an error when the
\* session cannot be opened or the command fails
Run(ok, stdout) ==
    IF ok THEN [out |-> stdout, err |-> FALSE]
    ELSE [out |-> <<>>, err |-> TRUE]

\* expandRemotePath
expandRemotePath(user, path) ==
    IF path # <<>> /\ Head(path) = "~"
    THEN (IF user = "root" THEN <<"/", "root">>
          ELSE <<"/", "home", "/", user>>) \o Tail(path)
    ELSE path

\* an operation's account of itself: the values it returns and, in `used`,
\* the paths it handed to the remote side, in order
\* UploadContent
UploadContent(user, path, sftpOK, createOK, writeOK) ==
    LET remotePath == expandRemotePath(user, path)
    IN  IF ~sftpOK THEN [err |-> TRUE, used |-> <<>>]
        ELSE [err |-> ~(createOK /\ writeOK),
              used |-> <<Dir(remotePath), remotePath>>]

\* DownloadContent
DownloadContent(user, path, sftpOK, openOK, readOK) ==
    LET remotePath == expandRemotePath(user, path)
    IN  IF ~sftpOK THEN [err |-> TRUE, used |-> <<>>]
        ELSE [err |-> ~(openOK /\ readOK), used |-> <<remotePath>>]

\* FileExists over sftp
FileExists(user, path, sftpOK, statOK) ==
    IF ~sftpOK THEN [exists |-> FALSE, err |-> TRUE, used |-> <<>>]
    ELSE [exists |-> statOK, err |-> FALSE,
          used |-> <<expandRemotePath(user, path)>>]

\* FileExists by `test -f`
FileExistsShell(user, path, ok) ==
    LET r == Run(ok, <<"exists", "NL">>)
    IN  [exists |-> ~r.err, err |-> FALSE,
         used |-> <<expandRemotePath(user, path)>>]

\* the words systemctl is-active may print, on one or more lines
StatusPieces == {"NL", "SP", "active", "inactive"}

\* faulty variant of GetServiceStatus: the error of Run is returned
GetServiceStatusWithErr(ok, stdout) ==
    LET r == Run(ok, stdout)
        output == TrimSpaceSeq(r.out)
    IN  [active |-> ~r.err /\ output = <<"active">>, output |-> output,
         err |-> r.err]

\* GetServiceStatus
GetServiceStatus(ok, stdout) ==
    LET r == Run(ok, stdout)
        output == TrimSpaceSeq(r.out)
    IN  IF r.err THEN [active |-> FALSE, output |-> output, err |-> FALSE]
        ELSE [active |-> output = <<"active">>, output |-> output,
              err |-> FALSE]

\* RestartDockerCompose: cd <dir> && [sudo] docker compose restart
RestartDockerCompose(user, dir, ok) ==
    [err |-> Run(ok, <<>>).err, sudo |-> user # "root", used |-> <<dir>>]

\* what a line of `docker compose ps --format json` can hold: an object
\* with State running, Running or exited, an array, text that is no JSON
JsonObjects == {"jRunning", "jRunningCap", "jExited"}
ComposePieces == White \cup JsonObjects \cup {"jArray", "text"}

StateOf(obj) ==
    CASE obj = "jRunning"    -> "running"
      [] obj = "jRunningCap" -> "Running"
      [] OTHER               -> "exited"

\* json.Unmarshal([]byte(line), &container): white space around the value
\* is allowed, the value has to be one object
Unmarshal(line) ==
    LET v == SelectSeq(line, LAMBDA x : x \notin White)
    IN  IF Len(v) = 1 /\ v[1] \in JsonObjects
        THEN [err |-> FALSE, State |-> StateOf(v[1])]
        ELSE [err |-> TRUE, State |-> ""]

\* faulty variant of ScanLines: the scan ends at a line that is no object
ScanLinesAborting(lines) ==
    LET bad == {i \in 1..Len(lines) :
                   lines[i] # <<>> /\ Unmarshal(lines[i]).err}
        hits == {i \in 1..Len(lines) :
                   /\ lines[i] # <<>>
                   /\ ~Unmarshal(lines[i]).err
                   /\ ToLower(Unmarshal(lines[i]).State) = "running"
                   /\ \A j \in bad : j > i}
    IN  IF hits = {} THEN [found |-> FALSE, State |-> ""]
        ELSE [found |-> TRUE,
              State |-> Unmarshal(lines[CHOOSE i \in hits :
                                          \A j \in hits : i <= j]).State]

\* the loop over the lines: the first line that is an object whose State is
\* "running" in lower case ends it
RECURSIVE ScanLines(_)
ScanLines(lines) ==
    IF lines = <<>> THEN [found |-> FALSE, State |-> ""]
    ELSE LET line == Head(lines)
             c == Unmarshal(line)
         IN  IF line # <<>> /\ ~c.err /\ ToLower(c.State) = "running"
             THEN [found |-> TRUE, State |-> c.State]
             ELSE ScanLines(Tail(lines))

\* what the legacy docker-compose ps prints
LegacyOutputs == {<<>>, <<"Up">>, <<"x", "SP", "Up", "SP", "x", "NL">>}

\* GetDockerComposeStatus.  ok1, stdout1: the modern command; ok2, stdout2:
\* the legacy one.  ran: the commands run, in order
GetDockerComposeStatus(user, dir, ok1, stdout1, ok2, stdout2) ==
    LET r1 == Run(ok1, stdout1)
        lines == Split(TrimSpaceSeq(r1.out))
        scan == ScanLines(lines)
        r2 == Run(ok2, stdout2)
        running == Contains(r2.out, <<"SP", "Up", "SP">>)
        legacy ==
            IF r2.err
            THEN [running |-> FALSE, status |-> "", err |-> TRUE,
                  ran |-> <<"modern", "legacy">>, used |-> <<dir, dir>>]
            ELSE [running |-> running,
                  status |-> IF running THEN "running" ELSE "stopped",
                  err |-> FALSE,
                  ran |-> <<"modern", "legacy">>, used |-> <<dir, dir>>]
    IN  IF ~r1.err /\ r1.out # <<>>
        THEN IF scan.found
             THEN [running |-> TRUE, status |-> scan.State, err |-> FALSE,
                   ran |-> <<"modern">>, used |-> <<dir>>]
             ELSE IF Len(lines) > 0
             THEN [running |-> FALSE, status |-> "stopped", err |-> FALSE,
                   ran |-> <<"modern">>, used |-> <<dir>>]
             ELSE legacy
        ELSE legacy

(***************************************************************************)
(* internal/ssh: calls of the operations                                   *)
(***************************************************************************)
Outputs(pieces) == UNION {[1..n -> pieces] : n \in 0..MaxOut}

NoOp == [op |-> "none", user |-> "", arg |-> <<>>, ok |-> <<>>,
         stdout |-> <<>>, stdout2 |-> <<>>, res |-> [err |-> FALSE]]

\* the call of an operation, followed from the call to the return: what it
\* was given, what the remote side did, what it returned
Called(op, user, arg, ok, stdout, stdout2, res) ==
    /\ opLog' = [op |-> op, user |-> user, arg |-> arg, ok |-> ok,
                 stdout |-> stdout, stdout2 |-> stdout2, res |-> res]
    /\ UNCHANGED <<syncVars, parserVars, appVars, poolLogVars, mergeVars,
                   restartVars>>

CallUploadContent ==
    /\ opLog = NoOp
    /\ \E user \in Users, path \in Paths, sftpOK, createOK, writeOK \in BOOLEAN :
           Called("UploadContent", user, path, <<sftpOK, createOK, writeOK>>,
                  <<>>, <<>>,
                  UploadContent(user, path, sftpOK, createOK, writeOK))

CallDownloadContent ==
    /\ opLog = NoOp
    /\ \E user \in Users, path \in Paths, sftpOK, openOK, readOK \in BOOLEAN :
           Called("DownloadContent", user, path, <<sftpOK, openOK, readOK>>,
                  <<>>, <<>>,
                  DownloadContent(user, path, sftpOK, openOK, readOK))

CallFileExists ==
    /\ opLog = NoOp
    /\ \E user \in Users, path \in Paths, sftpOK, statOK \in BOOLEAN :
           Called("FileExists", user, path, <<sftpOK, statOK>>, <<>>, <<>>,
                  FileExists(user, path, sftpOK, statOK))

CallFileExistsShell ==
    /\ opLog = NoOp
    /\ \E user \in Users, path \in Paths, ok \in BOOLEAN :
           Called("FileExistsShell", user, path, <<ok>>, <<>>, <<>>,
                  FileExistsShell(user, path, ok))

CallGetServiceStatus ==
    /\ opLog = NoOp
    /\ \E user \in Users, ok \in BOOLEAN, stdout \in Outputs(StatusPieces) :
           Called("GetServiceStatus", user, <<"frps">>, <<ok>>, stdout, <<>>,
                  GetServiceStatus(ok, stdout))

CallRestartDockerCompose ==
    /\ opLog = NoOp
    /\ \E user \in Users, dir \in Paths, ok \in BOOLEAN :
           Called("RestartDockerCompose", user, dir, <<ok>>, <<>>, <<>>,
                  RestartDockerCompose(user, dir, ok))

CallGetDockerComposeStatus ==
    /\ opLog = NoOp
    /\ \E user \in Users, dir \in Paths, ok1, ok2 \in BOOLEAN,
          stdout1 \in Outputs(ComposePieces), stdout2 \in LegacyOutputs :
           Called("GetDockerComposeStatus", user, dir, <<ok1, ok2>>,
                  stdout1, stdout2,
                  GetDockerComposeStatus(user, dir, ok1, stdout1, ok2, stdout2))

NextOps ==
    \/ CallUploadContent
    \/ CallDownloadContent
    \/ CallFileExists
    \/ CallFileExistsShell
    \/ CallGetServiceStatus
    \/ CallRestartDockerCompose
    \/ CallGetDockerComposeStatus

(***************************************************************************)
(* internal/tui/views: PullModel                                           *)
(***************************************************************************)
pullStepConfirm == 0
pullStepConnecting == 1
pullStepDownloading == 2
pullStepParsing == 3
pullStepSaving == 4
pullStepComplete == 5
pullStepFailed == 6

\* the content of the remote Caddyfile
RemoteContent == "remote"

\* a command an Update returns: none, the one that returns GoBackMsg, or
\* runStep(step) of the sync or of the pull view
NoAppCmd == [kind |-> "none", step |-> 0]
GoBackCmd == [kind |-> "goBack", step |-> 0]
StepCmd(kind, step) == [kind |-> kind, step |-> step]

KeyMsg(key) == [type |-> "key", key |-> key]
GoBackMsg == [type |-> "goBack"]

\* NewPullModel: localExists is what os.Stat of the local Caddyfile says
NewPullModel(localExists) ==
    [step |-> IF localExists THEN pullStepConfirm ELSE pullStepConnecting,
     remoteCaddyfile |-> "", localExists |-> localExists]

\* PullModel.Init
PullInit(model) ==
    IF model.step = pullStepConfirm THEN NoAppCmd
    ELSE StepCmd("pull", pullStepConnecting)

\* PullModel.Update
PullUpdate(model, msg) ==
    CASE msg.type = "key" ->
           (CASE msg.key = "esc" -> [m |-> model, cmd |-> GoBackCmd]
              [] msg.key = "y" ->
                   IF model.step = pullStepConfirm
                   THEN [m |-> [model EXCEPT !.step = pullStepConnecting],
                         cmd |-> StepCmd("pull", pullStepConnecting)]
                   ELSE [m |-> model, cmd |-> NoAppCmd]
              [] msg.key = "n" ->
                   IF model.step = pullStepConfirm
                   THEN [m |-> model, cmd |-> GoBackCmd]
                   ELSE [m |-> model, cmd |-> NoAppCmd]
              [] OTHER -> [m |-> model, cmd |-> NoAppCmd])
      [] msg.type = "pullStepComplete" ->
           LET m1 == [model EXCEPT
                        !.step = msg.step + 1,
                        !.remoteCaddyfile = IF msg.remoteCaddyfile # ""
                                            THEN msg.remoteCaddyfile ELSE @]
           IN  [m |-> m1,
                cmd |-> IF m1.step < pullStepComplete
                        THEN StepCmd("pull", m1.step) ELSE NoAppCmd]
      [] msg.type = "pullErr" ->
           [m |-> [model EXCEPT !.step = pullStepFailed], cmd |-> NoAppCmd]
      [] OTHER -> [m |-> model, cmd |-> NoAppCmd]

\* what the command runStep(step) of the pull view returns.  ok: GetClient
\* and DownloadFile, ParseContent, MkdirAll and WriteFile succeed
PullOutcome(step, ok) ==
    CASE ~ok /\ step \in {pullStepConnecting, pullStepParsing, pullStepSaving} ->
           [type |-> "pullErr"]
      [] step = pullStepConnecting ->
           [type |-> "pullStepComplete", step |-> pullStepDownloading,
            remoteCaddyfile |-> RemoteContent]
      [] OTHER ->
           [type |-> "pullStepComplete", step |-> step, remoteCaddyfile |-> ""]

(***************************************************************************)
(* internal/tui/views: SyncModel under the AppModel                        *)
(***************************************************************************)
\* SyncModel.Update with its key cases
SyncViewUpdate(model, msg, cfg) ==
    LET r == IF msg.type = "key" /\ msg.key = "enter" THEN OnKeyEnter(model)
             ELSE Update(model, msg, cfg)
    IN  IF msg.type = "key" /\ msg.key = "esc"
        THEN [m |-> model, cmd |-> GoBackCmd]
        ELSE [m |-> r.m,
              cmd |-> IF r.cmd = NoCmd THEN NoAppCmd
                      ELSE StepCmd("sync", r.cmd)]

\* what the command runStep(step) of the sync view returns when all its
\* goroutines succeed (ok) and when its first one fails
SyncOutcome(step, ok) ==
    CASE step = stepParsing ->
           ParseOutcome([NoRun EXCEPT !.localErr = ~ok,
                                      !.localServices = IF ok THEN 1
                                                        ELSE NoServices])
      [] step = stepGenerating ->
           IF ok
           THEN StepCompleteMsg(stepGenerating, NoServices,
                                [kind |-> "server", gen |-> 1],
                                [kind |-> "client", gen |-> 1])
           ELSE SyncErrMsg("Generate", "server")
      [] step = stepUploading ->
           UploadOutcome([NoRun EXCEPT !.serverOK = ok, !.serverFailed = ~ok,
                                       !.clientOK = TRUE,
                                       !.firstErr = IF ok THEN "" ELSE "server"])
      [] OTHER ->
           RestartOutcome([NoRun EXCEPT !.serverOK = ok, !.serverFailed = ~ok,
                                        !.clientOK = TRUE,
                                        !.firstErr = IF ok THEN "" ELSE "server"])

(***************************************************************************)
(* internal/tui/views/app.go: AppModel                                     *)
(***************************************************************************)
\* NewAppModel: the menu; the sub-models are made when a view is entered
NewAppModel ==
    [currentView |-> "menu", syncModel |-> NewSyncModel(FALSE),
     pullModel |-> NewPullModel(FALSE)]

\* initSubView.  item: the menu item chosen
initSubView(a, item, localExists) ==
    CASE item \in {"sync", "syncDryRun"} ->
           [a |-> [a EXCEPT !.currentView = "sync",
                            !.syncModel = NewSyncModel(item = "syncDryRun")],
            cmd |-> StepCmd("sync", stepParsing)]
      [] OTHER ->
           [a |-> [a EXCEPT !.currentView = "pull",
                            !.pullModel = NewPullModel(localExists)],
            cmd |-> PullInit(NewPullModel(localExists))]

\* AppModel.Update: GoBackMsg leads to the menu; in a view every other
\* message goes to the sub-model of that view; in the menu enter opens the
\* chosen view and every other message is dropped
AppUpdate(a, msg, cfg, localExists) ==
    IF msg.type = "goBack"
    THEN [a |-> [a EXCEPT !.currentView = "menu"], cmd |-> NoAppCmd]
    ELSE IF a.currentView = "sync"
    THEN LET r == SyncViewUpdate(a.syncModel, msg, cfg)
         IN  [a |-> [a EXCEPT !.syncModel = r.m], cmd |-> r.cmd]
    ELSE IF a.currentView = "pull"
    THEN LET r == PullUpdate(a.pullModel, msg)
         IN  [a |-> [a EXCEPT !.pullModel = r.m], cmd |-> r.cmd]
    ELSE IF msg.type = "key" /\ msg.key = "enter"
    THEN initSubView(a, msg.item, localExists)
    ELSE [a |-> a, cmd |-> NoAppCmd]

(***************************************************************************)
(* The Bubbletea program around the AppModel                               *)
(***************************************************************************)
Invs == 1..MaxInv

NoAppHist ==
    [cur       |-> [sync |-> 0, pull |-> 0],
     launched  |-> [v \in {"sync", "pull"} |-> [k \in Invs |-> {}]],
     completed |-> [v \in {"sync", "pull"} |-> [k \in Invs |-> {}]],
     hadLocal  |-> [k \in Invs |-> FALSE],
     yKey      |-> [k \in Invs |-> FALSE],
     writes    |-> {}]

\* the command cmd, returned by the model of invocation k of its view
Started(cmd, k, a) ==
    [kind |-> cmd.kind, inv |-> k, step |-> cmd.step,
     content |-> IF cmd.kind = "pull" THEN a.pullModel.remoteCaddyfile ELSE ""]

\* the history h once Update has turned the AppModel from a0 into a and
\* returned cmd: a view entered is a new invocation of it
Noted(h, a0, a, cmd) ==
    LET view == a.currentView
        entered == a0.currentView = "menu" /\ view # "menu"
        k == h.cur[view] + 1
    IN  IF entered
        THEN [h EXCEPT
                !.cur[view] = k,
                !.hadLocal[k] = IF view = "pull" THEN a.pullModel.localExists
                                ELSE @,
                !.launched[view][k] = IF cmd.kind = view THEN @ \cup {cmd.step}
                                      ELSE @]
        ELSE IF cmd.kind \in {"sync", "pull"}
        THEN [h EXCEPT !.launched[cmd.kind][h.cur[cmd.kind]] = @ \cup {cmd.step}]
        ELSE h

\* the program gives msg to Update and runs the command returned: GoBackMsg
\* comes back at once, runStep goes on in its goroutine with the model it was
\* called on.  h: the history with what the message itself added
Handle(msg, h) ==
    \E r \in {AppUpdate(app, msg, config, localFile.exists)} :
    \E h1 \in {Noted(h, app, r.a, r.cmd)} :
        /\ app' = IF r.cmd.kind = "goBack"
                  THEN AppUpdate(r.a, GoBackMsg, config, localFile.exists).a
                  ELSE r.a
        /\ inflight' = IF r.cmd.kind \in {"sync", "pull"}
                       THEN inflight \cup
                              {Started(r.cmd, h1.cur[r.cmd.kind], r.a)}
                       ELSE inflight
        /\ appHist' = h1

\* enter on an item of the menu
MenuEnter(item) ==
    /\ app.currentView = "menu"
    /\ appHist.cur.sync + appHist.cur.pull < MaxInv
    /\ Handle([type |-> "key", key |-> "enter", item |-> item], appHist)
    /\ UNCHANGED localFile
    /\ UNCHANGED <<syncVars, parserVars, opsVars, poolLogVars, mergeVars,
                   restartVars>>

\* a key in a view
ViewKey(key) ==
    /\ app.currentView # "menu"
    /\ key \in (IF app.currentView = "pull" THEN {"y", "n", "esc"}
                ELSE {"enter", "esc"})
    /\ Handle(KeyMsg(key),
              IF app.currentView = "pull"
                 /\ app.pullModel.step = pullStepConfirm
              THEN [appHist EXCEPT
                      !.yKey[appHist.cur.pull] = @ \/ key = "y"]
              ELSE appHist)
    /\ UNCHANGED localFile
    /\ UNCHANGED <<syncVars, parserVars, opsVars, poolLogVars, mergeVars,
                   restartVars>>

\* a command finishes and the program hands its message to Update.  The
\* saving step of the pull view writes the content its model held
CommandReturns(c, ok) ==
    /\ c \in inflight
    /\ \E saved \in {c.kind = "pull" /\ c.step = pullStepSaving /\ ok} :
       \E r \in {AppUpdate(app, IF c.kind = "pull" THEN PullOutcome(c.step, ok)
                                ELSE SyncOutcome(c.step, ok),
                           config, localFile.exists)} :
       \E h \in {[appHist EXCEPT
                    !.completed[c.kind][c.inv] =
                        IF ok THEN @ \cup {c.step} ELSE @,
                    !.writes = IF saved
                               THEN @ \cup {[inv |-> c.inv, content |-> c.content]}
                               ELSE @]} :
           /\ localFile' = IF saved
                           THEN [exists |-> TRUE, content |-> c.content]
                           ELSE localFile
           /\ app' = r.a
           /\ inflight' = (inflight \ {c}) \cup
                (IF r.cmd.kind \in {"sync", "pull"}
                 THEN {Started(r.cmd, appHist.cur[r.cmd.kind], r.a)}
                 ELSE {})
           /\ appHist' = Noted(h, app, r.a, r.cmd)
    /\ UNCHANGED <<syncVars, parserVars, opsVars, poolLogVars, mergeVars,
                   restartVars>>

NextApp ==
    \/ \E item \in {"sync", "syncDryRun", "pull"} : MenuEnter(item)
    \/ \E key \in {"enter", "esc", "y", "n"} : ViewKey(key)
    \/ \E c \in inflight, ok \in BOOLEAN : CommandReturns(c, ok)

(***************************************************************************)
(* The pool with RemoveClient, called from anywhere                        *)
(***************************************************************************)
\* a whole GetClient call; the mutex makes it one step
PoolGetClient(key, dialOK) ==
    /\ poolMu = NoHolder
    /\ \E r \in {GetClientCached(pool, key, dialOK /\ nextId[key] < MaxClients,
                                  ClientId(key, nextId[key] + 1))} :
           /\ pool' = r.pool
           /\ nextId' = IF r.created THEN [nextId EXCEPT ![key] = @ + 1]
                        ELSE nextId
           /\ poolLog' = [op |-> "GetClient", key |-> key, before |-> pool,
                          closedBefore |-> closed, ret |-> r.ret,
                          dialed |-> r.dialed,
                          afterRemove |-> key \in poolLog.removed,
                          removed |-> poolLog.removed \ {key}]
    /\ UNCHANGED closed
    /\ UNCHANGED <<uiVars, taskVars, procVars, config, poolMu, call, lastGot,
                   purged, lastCloseAll>>
    /\ UNCHANGED <<parserVars, opsVars, appVars, mergeVars, restartVars>>

\* a whole RemoveClient call
PoolRemoveClient(key) ==
    /\ poolMu = NoHolder
    /\ \E r \in {RemoveClient(pool, key)} :
           /\ pool' = r.pool
           /\ closed' = closed \cup r.closes
           /\ poolLog' = [op |-> "RemoveClient", key |-> key, before |-> pool,
                          closedBefore |-> closed, ret |-> NoClient,
                          dialed |-> FALSE, afterRemove |-> FALSE,
                          removed |-> poolLog.removed \cup {key}]
    /\ UNCHANGED nextId
    /\ UNCHANGED <<uiVars, taskVars, procVars, config, poolMu, call, lastGot,
                   purged, lastCloseAll>>
    /\ UNCHANGED <<parserVars, opsVars, appVars, mergeVars, restartVars>>

NextPool ==
    \/ \E key \in Keys, dialOK \in BOOLEAN : PoolGetClient(key, dialOK)
    \/ \E key \in Keys : PoolRemoveClient(key)

(***************************************************************************)
(* runStep(stepParsing): from the parsed services to the message           *)
(***************************************************************************)
ServiceNames == {"a", "b", "c"}

\* the order of the names as strings
NameRank(n) == CASE n = "a" -> 1 [] n = "b" -> 2 [] OTHER -> 3

\* what ParseFile can return: distinct names in first-seen order
ParsedLists ==
    {q \in UNION {[1..n -> ServiceNames] : n \in 0..Cardinality(ServiceNames)} :
        \A i, j \in DOMAIN q : i # j => q[i] # q[j]}

\* localServices[svc.Name] = svc for each parsed service: the keys of the map
MapOf(q) == {q[i] : i \in DOMAIN q}

\* the orders in which a range over a map with these keys can visit them
RangeOrders(keys) ==
    {q \in [1..Cardinality(keys) -> keys] :
        \A i, j \in DOMAIN q : i # j => q[i] # q[j]}

\* sort.Slice of the rows by Name
SortByName(q) ==
    CHOOSE r \in RangeOrders(MapOf(q)) :
        \A i, j \in DOMAIN r : i < j => NameRank(r[i]) < NameRank(r[j])

\* the loop over localServices appends to services and to serviceRows in the
\* order of the range; only serviceRows is sorted afterwards
MergeParsed(parsed, order) ==
    [services |-> order, serviceRows |-> SortByName(order)]

\* one run of the parsing stage on the local document
RunParsing ==
    /\ Len(merges.runs) < MaxRuns
    /\ \E order \in RangeOrders(MapOf(merges.parsed)) :
           merges' = [merges EXCEPT
                        !.runs = Append(@, MergeParsed(merges.parsed, order))]
    /\ UNCHANGED <<syncVars, parserVars, opsVars, appVars, poolLogVars,
                   restartVars>>

(***************************************************************************)
(* internal/tui/views/restart.go: RestartModel                             *)
(***************************************************************************)
restartPhaseSelect == 0
restartPhaseRunning == 1
restartPhaseComplete == 2
restartPhaseFailed == 3

RestartTasks == {"serverRathole", "serverCaddy", "clientRathole"}

\* NewRestartModel: the options of the selection menu
RestartOptions(cfg) ==
    {"restartOptRatholeServer", "restartOptRatholeClient", "restartOptAll"}
      \cup (IF cfg.caddyComposeDir THEN {"restartOptCaddy"} ELSE {})

NewRestartModel ==
    [phase |-> restartPhaseSelect, err |-> FALSE,
     restartRatholeServer |-> FALSE, restartRatholeClient |-> FALSE,
     restartCaddy |-> FALSE,
     status |-> [t \in RestartTasks |-> taskPending]]

\* is the task among those the model is to restart
Selected(model, t) ==
    CASE t = "serverRathole" -> model.restartRatholeServer
      [] t = "serverCaddy"   -> model.restartCaddy
      [] OTHER               -> model.restartRatholeClient

\* the places where doRestart can fail: a GetClient, a restart command, a
\* status that is not running
FailPoints ==
    {"none", "serverDial", "serverRestart", "serverVerify", "caddyRestart",
     "caddyVerify", "clientDial", "clientRestart", "clientVerify"}

\* the restartDoneMsg doRestart returns for the model it was called on, when
\* the remote side fails at failAt (or nowhere on its way)
doRestart(model, failAt) ==
    LET rs == model.restartRatholeServer
        rc == model.restartRatholeClient
        cd == model.restartCaddy
        failedTask ==
            CASE failAt = "serverDial" /\ (rs \/ cd) ->
                   IF rs THEN "serverRathole" ELSE "serverCaddy"
              [] failAt \in {"serverRestart", "serverVerify"} /\ rs ->
                   "serverRathole"
              [] failAt \in {"caddyRestart", "caddyVerify"} /\ cd ->
                   "serverCaddy"
              [] failAt \in {"clientDial", "clientRestart", "clientVerify"}
                   /\ rc -> "clientRathole"
              [] OTHER -> ""
    IN  [type |-> "restartDone", err |-> failedTask # "",
         failedTask |-> failedTask,
         serverRatholeDone |-> rs /\ failedTask # "serverRathole",
         serverCaddyDone |->
             cd /\ failedTask \notin {"serverRathole", "serverCaddy"},
         clientRatholeDone |-> rc /\ failedTask = ""]

\* startRestart: the batch of commands
startRestart(model) ==
    {[type |-> "restartTaskUpdate", task |-> t, status |-> taskRunning]
        : t \in {x \in RestartTasks : Selected(model, x)}}
      \cup {[type |-> "doRestart", model |-> model]}

\* RestartModel.Update.  option: the entry of the menu under the cursor
RestartUpdate(model, msg, cfg) ==
    CASE msg.type = "key" /\ msg.key = "esc" ->
           IF model.phase # restartPhaseSelect
           THEN [m |-> NewRestartModel, cmds |-> {}, back |-> FALSE]
           ELSE [m |-> model, cmds |-> {}, back |-> TRUE]
      [] msg.type = "key" /\ msg.key = "enter" ->
           IF model.phase = restartPhaseSelect
           THEN LET all == msg.option = "restartOptAll"
                    m1 == [model EXCEPT
                             !.restartRatholeServer =
                                 @ \/ all \/ msg.option = "restartOptRatholeServer",
                             !.restartRatholeClient =
                                 @ \/ all \/ msg.option = "restartOptRatholeClient",
                             !.restartCaddy =
                                 @ \/ (all /\ cfg.caddyComposeDir)
                                   \/ msg.option = "restartOptCaddy",
                             !.phase = restartPhaseRunning]
                IN  [m |-> m1, cmds |-> startRestart(m1), back |-> FALSE]
           ELSE [m |-> model, cmds |-> {}, back |-> FALSE]
      [] msg.type = "restartTaskUpdate" ->
           [m |-> [model EXCEPT !.status[msg.task] = msg.status],
            cmds |-> {}, back |-> FALSE]
      [] msg.type = "restartDone" ->
           LET done == [t \in RestartTasks |->
                          CASE t = "serverRathole" -> msg.serverRatholeDone
                            [] t = "serverCaddy"   -> msg.serverCaddyDone
                            [] OTHER               -> msg.clientRatholeDone]
           IN  [m |-> [model EXCEPT
                         !.status = [t \in RestartTasks |->
                                       IF msg.failedTask = t THEN taskFailed
                                       ELSE IF done[t] THEN taskDone
                                       ELSE model.status[t]],
                         !.phase = IF msg.err THEN restartPhaseFailed
                                   ELSE restartPhaseComplete,
                         !.err = msg.err],
                cmds |-> {}, back |-> FALSE]
      [] OTHER -> [m |-> model, cmds |-> {}, back |-> FALSE]

(***************************************************************************)
(* The Bubbletea program around the RestartModel                           *)
(***************************************************************************)
NoDone == doRestart(NewRestartModel, "none")

\* the view as it opens
NoRestart ==
    [m |-> NewRestartModel, pending |-> {}, starts |-> 0, lastDone |-> NoDone]

\* the program gives msg to Update and runs the commands of the batch
\* returned, each tagged with the selection that started it
Handled(msg, rest, done) ==
    \E r \in {RestartUpdate(restart.m, msg, config)} :
        restart' = [m |-> r.m,
                    pending |-> rest \cup
                        {[cmd |-> c, run |-> restart.starts + 1] : c \in r.cmds},
                    starts |-> IF r.cmds # {} THEN restart.starts + 1
                               ELSE restart.starts,
                    lastDone |-> done]

\* enter on an option of the selection menu
RestartEnter(option) ==
    /\ restart.starts < MaxRestarts
    /\ restart.m.phase = restartPhaseSelect
    /\ option \in RestartOptions(config)
    /\ Handled([type |-> "key", key |-> "enter", option |-> option],
               restart.pending, restart.lastDone)
    /\ UNCHANGED <<syncVars, parserVars, opsVars, appVars, poolLogVars,
                   mergeVars>>

\* q or esc outside the selection menu
RestartEsc ==
    /\ restart.m.phase # restartPhaseSelect
    /\ Handled(KeyMsg("esc"), restart.pending, restart.lastDone)
    /\ UNCHANGED <<syncVars, parserVars, opsVars, appVars, poolLogVars,
                   mergeVars>>

\* a sendTaskUpdate command has run and its message is given to Update
TaskUpdateDelivered(c) ==
    /\ c \in restart.pending
    /\ c.cmd.type = "restartTaskUpdate"
    /\ Handled(c.cmd, restart.pending \ {c}, restart.lastDone)
    /\ UNCHANGED <<syncVars, parserVars, opsVars, appVars, poolLogVars,
                   mergeVars>>

\* a doRestart command has returned and its message is given to Update
RestartDone(c, failAt) ==
    /\ c \in restart.pending
    /\ c.cmd.type = "doRestart"
    /\ Handled(doRestart(c.cmd.model, failAt), restart.pending \ {c},
               doRestart(c.cmd.model, failAt))
    /\ UNCHANGED <<syncVars, parserVars, opsVars, appVars, poolLogVars,
                   mergeVars>>

NextRestart ==
    \/ \E option \in RestartOptions(config) : RestartEnter(option)
    \/ RestartEsc
    \/ \E c \in restart.pending : TaskUpdateDelivered(c)
    \/ \E c \in restart.pending, failAt \in FailPoints : RestartDone(c, failAt)

(***************************************************************************)
(* cmd/rcm/main.go                                                         *)
(***************************************************************************)
\* the process ends with status `code`: its goroutines, the model, the
\* program's message queue and the pool (and the connections the operating
\* system tears down with it) are gone; what remains observable is the exit
\* status and how often CloseAll had been called
Exit(code) ==
    /\ exitCode' = code
    /\ mainPc' = "exited"
    /\ sigPc' = "exited"
    /\ m' = NewSyncModel(FALSE)
    /\ run' = NoRun
    /\ pc' = [t \in TaskIds |-> "idle"]
    /\ held' = [t \in TaskIds |-> NoClient]
    /\ opsDone' = [t \in TaskIds |-> 0]
    /\ resultCh' = <<>>
    /\ msgs' = <<>>
    /\ pool' = [k \in Keys |-> NoClient]
    /\ closed' = {}
    /\ nextId' = [k \in Keys |-> 0]
    /\ poolMu' = NoHolder
    /\ launched' = <<>>
    /\ sent' = [t \in TaskIds |-> 0]
    /\ outcome' = [t \in WorkIds |-> "none"]
    /\ unitInactive' = {}
    /\ uploaded' = [t \in TaskIds |-> NoTOML]
    /\ parseRuns' = 0
    /\ genRuns' = 0
    /\ commits' = 0
    /\ endKeys' = 0
    /\ failOrder' = <<>>
    /\ call' = [t \in TaskIds |-> NoCall]
    /\ lastGot' = [k \in Keys |-> NoClient]
    /\ purged' = [k \in Keys |-> FALSE]
    /\ lastCloseAll' = [ran |-> FALSE, cached |-> {}]
    /\ UNCHANGED <<config, sideVars, closeAllCalls>>

\* cmd.Execute returns an error (config.Load or p.Run failed): os.Exit(1)
ExecuteFails ==
    /\ Running /\ mainPc \in {"execute", "tui"}
    /\ Exit(1)

\* ctrl+c in the program: Update returns tea.Quit, p.Run and cmd.Execute
\* return nil, and main's defer ssh.CloseAll() runs.  The quit itself changes
\* nothing but main's position and commutes with every goroutine step, so the
\* step is taken where the deferred call obtains poolMu.
MainCloseAll ==
    /\ Running /\ mainPc = "tui"
    /\ poolMu = NoHolder
    /\ DoCloseAll
    /\ mainPc' = "returning"
    /\ UNCHANGED <<sigPc, exitCode, config, sideVars>>
    /\ UNCHANGED uiVars
    /\ UNCHANGED taskVars

\* main has returned: the process ends with status 0
MainReturn ==
    /\ Running /\ mainPc = "returning"
    /\ Exit(0)

\* SIGINT or SIGTERM is delivered: <-sigChan returns in the signal goroutine,
\* which calls ssh.CloseAll().  The delivery changes nothing but the
\* goroutine's position, so the step is taken where CloseAll obtains poolMu.
SigCloseAll ==
    /\ Running /\ sigPc = "wait"
    /\ poolMu = NoHolder
    /\ DoCloseAll
    /\ sigPc' = "exit"
    /\ UNCHANGED <<mainPc, exitCode, config, sideVars>>
    /\ UNCHANGED uiVars
    /\ UNCHANGED taskVars

\* the signal goroutine: os.Exit(0)
SigExit ==
    /\ Running /\ sigPc = "exit"
    /\ Exit(0)

(***************************************************************************)
(* Specification                                                           *)
(***************************************************************************)
InitSync ==
    /\ config \in Configs
    /\ \E dryRun \in BOOLEAN : m = NewSyncModel(dryRun)
    /\ run = NoRun
    /\ pc = [t \in TaskIds |-> "idle"]
    /\ held = [t \in TaskIds |-> NoClient]
    /\ opsDone = [t \in TaskIds |-> 0]
    /\ resultCh = <<>>
    /\ msgs = <<>>
    /\ pool = [k \in Keys |-> NoClient]
    /\ closed = {}
    /\ nextId = [k \in Keys |-> 0]
    /\ poolMu = NoHolder
    /\ mainPc = "execute"
    /\ sigPc = "wait"
    /\ exitCode = -1
    /\ closeAllCalls = 0
    /\ launched = <<>>
    /\ sent = [t \in TaskIds |-> 0]
    /\ outcome = [t \in WorkIds |-> "none"]
    /\ unitInactive = {}
    /\ uploaded = [t \in TaskIds |-> NoTOML]
    /\ parseRuns = 0
    /\ genRuns = 0
    /\ commits = 0
    /\ endKeys = 0
    /\ failOrder = <<>>
    /\ call = [t \in TaskIds |-> NoCall]
    /\ lastGot = [k \in Keys |-> NoClient]
    /\ purged = [k \in Keys |-> FALSE]
    /\ lastCloseAll = [ran |-> FALSE, cached |-> {}]

\* the rcm process: no document is parsed by hand
Init ==
    /\ InitSync
    /\ doc = <<>>
    /\ parser = NewParser
    /\ results = <<>>
    /\ opLog = NoOp
    /\ app = NewAppModel
    /\ inflight = {}
    /\ localFile = [exists |-> FALSE, content |-> ""]
    /\ appHist = NoAppHist
    /\ poolLog = NoPoolCall
    /\ merges = [parsed |-> <<>>, runs |-> <<>>]
    /\ restart = NoRestart

\* the parser alone, on a document
InitParser ==
    /\ InitSync
    /\ config = [caddyComposeDir |-> FALSE, caddyfile |-> FALSE]
    /\ ~m.dryRun
    /\ doc \in Docs
    /\ parser = NewParser
    /\ results = <<>>
    /\ opLog = NoOp
    /\ app = NewAppModel
    /\ inflight = {}
    /\ localFile = [exists |-> FALSE, content |-> ""]
    /\ appHist = NoAppHist
    /\ poolLog = NoPoolCall
    /\ merges = [parsed |-> <<>>, runs |-> <<>>]
    /\ restart = NoRestart

\* the sync view: the program, its commands and their goroutines
NextSync ==
    \/ StartProgram
    \/ Deliver
    \/ KeyEnter
    \/ \E readOK \in BOOLEAN : ParseLocal(readOK)
    \/ ParseRemoteSkip
    \/ \E t \in TaskIds : GetClientLock(t)
    \/ \E t \in TaskIds, runOK, dialOK \in BOOLEAN :
          GetClientReturn(t, runOK, dialOK)
    \/ ReadFileFails
    \/ \E t \in TaskIds : BeginOp(t)
    \/ \E t \in TaskIds, ok \in BOOLEAN : EndOp(t, ok, TRUE)
    \/ Collect
    \/ \E failAt \in {"", "server", "client"} : Generate(failAt)

\* a restart command succeeds and the unit does not come back active
RestartedInactive(t) == EndOp(t, TRUE, FALSE)

\* the ways main ends the process
NextProc ==
    \/ ExecuteFails
    \/ MainCloseAll
    \/ MainReturn
    \/ SigCloseAll
    \/ SigExit

Next == NextSync \/ NextProc

\* the whole process
Spec == Init /\ [][Next]_vars

\* the sync view for as long as the process is left running; restarted
\* units come back active
SpecSync == Init /\ [][NextSync]_vars

\* the steps of goroutine t that wait for the pool's mutex or for the
\* remote side
Goroutine(t) ==
    \/ GetClientLock(t)
    \/ \E runOK, dialOK \in BOOLEAN : GetClientReturn(t, runOK, dialOK)
    \/ BeginOp(t)
    \/ \E ok \in BOOLEAN : EndOp(t, ok, TRUE)

\* the goroutines of stepParsing that do not call the remote side
ParseStep ==
    \/ \E readOK \in BOOLEAN : ParseLocal(readOK)
    \/ ParseRemoteSkip
    \/ ReadFileFails

\* the command of stepGenerating
GenerateStep == \E failAt \in {"", "server", "client"} : Generate(failAt)

\* the sync view when the user sends no key
NextUnattended ==
    \/ StartProgram
    \/ Deliver
    \/ ParseStep
    \/ \E t \in TaskIds : Goroutine(t)
    \/ Collect
    \/ GenerateStep

\* the Go scheduler runs every goroutine that can run, a mutex that is
\* released is acquired by a waiter, every remote operation returns, and
\* the Bubbletea program runs every command and delivers every message
Fairness ==
    /\ WF_vars(StartProgram)
    /\ WF_vars(Deliver)
    /\ WF_vars(ParseStep)
    /\ \A t \in TaskIds : WF_vars(Goroutine(t))
    /\ WF_vars(Collect)
    /\ WF_vars(GenerateStep)

\* the sync view left alone, under fairness
SpecUnattended == Init /\ [][NextUnattended]_vars /\ Fairness

\* the parser called on a document, MaxCalls times
SpecParser == InitParser /\ [][ParseContent]_vars

\* the program started on the menu, with or without a local Caddyfile
InitApp ==
    /\ InitSync
    /\ config = [caddyComposeDir |-> FALSE, caddyfile |-> FALSE]
    /\ ~m.dryRun
    /\ doc = <<>>
    /\ parser = NewParser
    /\ results = <<>>
    /\ opLog = NoOp
    /\ app = NewAppModel
    /\ inflight = {}
    /\ localFile \in {[exists |-> FALSE, content |-> ""],
                      [exists |-> TRUE, content |-> "local"]}
    /\ appHist = NoAppHist
    /\ poolLog = NoPoolCall
    /\ merges = [parsed |-> <<>>, runs |-> <<>>]
    /\ restart = NoRestart

\* the menu, the sync view and the pull view
SpecApp == InitApp /\ [][NextApp]_vars

\* an operation alone, on a Client
InitOps ==
    /\ Init
    /\ config = [caddyComposeDir |-> FALSE, caddyfile |-> FALSE]
    /\ ~m.dryRun

\* one operation of a Client, from the call to the return
SpecOps == InitOps /\ [][NextOps]_vars

\* the parsing stage run on the services of one local document
InitMerge ==
    /\ InitSync
    /\ config = [caddyComposeDir |-> FALSE, caddyfile |-> FALSE]
    /\ ~m.dryRun
    /\ doc = <<>>
    /\ parser = NewParser
    /\ results = <<>>
    /\ opLog = NoOp
    /\ app = NewAppModel
    /\ inflight = {}
    /\ localFile = [exists |-> FALSE, content |-> ""]
    /\ appHist = NoAppHist
    /\ poolLog = NoPoolCall
    /\ \E q \in ParsedLists : merges = [parsed |-> q, runs |-> <<>>]
    /\ restart = NoRestart

SpecMerge == InitMerge /\ [][RunParsing]_vars

\* the restart view, with and without a compose directory for Caddy
InitRestart ==
    /\ Init
    /\ ~config.caddyfile
    /\ ~m.dryRun

SpecRestart == InitRestart /\ [][NextRestart]_vars

\* the pool with RemoveClient, called in any order
SpecPool == InitOps /\ [][NextPool]_vars

\* the sync view with a remote document that may hold the local services
SpecRemote == Init /\ [][NextSync \/ RemoteParsed]_vars

\* the sync view with units that may stay inactive after their restart
SpecUnits ==
    Init /\ [][NextSync \/ \E t \in TaskIds : RestartedInactive(t)]_vars

(***************************************************************************)
(* Vocabulary of the properties                                            *)
(***************************************************************************)
\* the status the model shows for a goroutine's task
Status(t) ==
    CASE t \in {"parseLocal", "parseRemote"} -> m.parseStatus
      [] t = "uploadServer"  -> m.uploadServerStatus
      [] t = "uploadClient"  -> m.uploadClientStatus
      [] t = "restartServer" -> m.restartServerStatus
      [] t = "restartClient" -> m.restartClientStatus
      [] OTHER               -> m.restartCaddyStatus

StageOrder == <<stepParsing, stepGenerating, stepUploading, stepRestarting>>

IsPrefix(s, t) == Len(s) <= Len(t) /\ \A i \in 1..Len(s) : s[i] = t[i]

WasLaunched(step) == \E i \in 1..Len(launched) : launched[i] = step

\* the units of work of a step
Work(step) ==
    IF step = stepGenerating THEN {"generate"} ELSE StageTasks(step, config)

StageClean(step)  == \A w \in Work(step) : outcome[w] = "ok"
StageFailed(step) == \E w \in Work(step) : outcome[w] = "fail"

\* the command of the step has returned and Update has handled its message
Settled(step) ==
    /\ WasLaunched(step)
    /\ run.step = step => (~run.active /\ msgs = <<>>)

FanOut == {stepUploading, stepRestarting}

(***************************************************************************)
(* Properties of the sync pipeline                                         *)
(***************************************************************************)
\* C1: stages are started in the fixed order Parsing, Generating, Uploading,
\* Restarting, each at most once and each only after every unit of work of
\* the stage before it finished without failure; once the message of a stage
\* with a failed unit has been handled the step is stepFailed (and, by the
\* first part, no later stage was started); stepComplete outside the preview
\* is reached only through all four stages.
C1_StagesInOrder ==
    /\ IsPrefix(launched, StageOrder)
    /\ \A i \in 2..Len(launched) : StageClean(launched[i - 1])
    /\ \A i \in 1..Len(launched) :
          (StageFailed(launched[i]) /\ Settled(launched[i]))
             => (m.step = stepFailed /\ Len(launched) = i)
    /\ (m.step = stepComplete /\ ~m.dryRun) => launched = StageOrder

\* an upload failed, the step is stepFailed and Restarting was never started
C1_Witness ==
    /\ outcome["uploadServer"] = "fail"
    /\ Settled(stepUploading)
    /\ m.step = stepFailed
    /\ launched = <<stepParsing, stepGenerating, stepUploading>>

\* C2: once the message of the Uploading or the Restarting stage has been
\* handled, every task of the stage that failed is shown taskFailed and every
\* task that succeeded is shown taskDone, whatever the order of completion.
C2_MatrixIsPerTask ==
    \A step \in FanOut :
        Settled(step) =>
            \A t \in StageTasks(step, config) :
                /\ outcome[t] = "fail" => Status(t) = taskFailed
                /\ outcome[t] = "ok"   => Status(t) = taskDone

\* the server upload failed, the client upload succeeded, and the message
\* carrying the server's error has been handled
C2_Witness ==
    /\ Settled(stepUploading)
    /\ outcome["uploadServer"] = "fail"
    /\ outcome["uploadClient"] = "ok"
    /\ run.step = stepUploading /\ run.firstErr = "server"

\* C3: a restart whose command succeeded while the unit did not come back
\* active is shown as failed once the Restarting stage is over.
C3_InactiveIsFailure ==
    \A t \in StageTasks(stepRestarting, config) :
        (Settled(stepRestarting) /\ t \in unitInactive)
            => Status(t) = taskFailed

\* C4: a goroutine sends at most one result, has sent exactly one when it
\* has returned, and a collector that has finished received one result from
\* each goroutine of its stage; when all goroutines of the stage in flight
\* have returned, the results the collector waits for are on the channel.
C4_OneResultEach ==
    /\ \A t \in TaskIds : sent[t] <= 1 /\ (pc[t] = "done" <=> sent[t] = 1)
    /\ \A step \in FanOut \cup {stepParsing} :
          (WasLaunched(step) /\ (run.step = step => ~run.active))
             => \A t \in StageTasks(step, config) : sent[t] = 1
    /\ (~run.active /\ WasLaunched(run.step) /\ run.step # stepGenerating)
          => run.got = Cardinality(StageTasks(run.step, config))
    /\ (run.active /\ run.step # stepGenerating)
          => /\ Len(resultCh) =
                   Cardinality({t \in StageTasks(run.step, config) : sent[t] = 1})
             /\ (\A t \in StageTasks(run.step, config) : pc[t] = "done")
                   => Len(resultCh) = TaskCount(run.step, config)

\* three restart goroutines were started, one failed, and the collector
\* finished with three results
C4_Witness ==
    /\ run.step = stepRestarting /\ ~run.active
    /\ run.got = 3
    /\ outcome["restartServer"] = "fail"
    /\ sent["restartCaddy"] = 1 /\ sent["restartClient"] = 1

\* C10: while the model is in dry-run mode no upload or restart goroutine
\* has been started; the commit key is accepted at most once, only after
\* the preview's Generating succeeded, and it starts Uploading without a
\* second run of the parser or the generator; what the upload goroutines
\* write are the artifacts of that one generator run, which the model holds.
C10_PreviewThenCommit ==
    /\ m.dryRun =>
          /\ IsPrefix(launched, <<stepParsing, stepGenerating>>)
          /\ \A t \in TaskIds : StageOf(t) # stepParsing => pc[t] = "idle"
          /\ commits = 0
    /\ commits <= 1
    /\ commits = 1 =>
          /\ IsPrefix(<<stepParsing, stepGenerating, stepUploading>>, launched)
          /\ IsPrefix(launched, StageOrder)
          /\ parseRuns = 1 /\ genRuns = 1
          /\ outcome["generate"] = "ok"
          /\ m.serverTOML = [kind |-> "server", gen |-> 1]
          /\ m.clientTOML = [kind |-> "client", gen |-> 1]
          /\ uploaded["uploadServer"] \in {NoTOML, m.serverTOML}
          /\ uploaded["uploadClient"] \in {NoTOML, m.clientTOML}

\* after a commit from the preview both artifacts have been written
C10_Witness ==
    /\ commits = 1
    /\ uploaded["uploadServer"] = [kind |-> "server", gen |-> 1]
    /\ uploaded["uploadClient"] = [kind |-> "client", gen |-> 1]

\* C11: once the message of an Uploading stage with a failed upload has been
\* handled the step is stepFailed, Restarting has not been started and none
\* of its goroutines has run, no goroutine is left that could issue a remote
\* operation, and the artifact a sibling upload wrote is still in place.
C11_HaltsWithoutRollback ==
    (StageFailed(stepUploading) /\ Settled(stepUploading)) =>
        /\ m.step = stepFailed
        /\ ~WasLaunched(stepRestarting)
        /\ ~run.active
        /\ \A t \in StageTasks(stepRestarting, config) :
              pc[t] = "idle" /\ sent[t] = 0 /\ opsDone[t] = 0
        /\ \A t \in TaskIds : pc[t] \in {"idle", "done"} /\ ~ENABLED BeginOp(t)
        /\ \A t \in StageTasks(stepUploading, config) :
              opsDone[t] >= 1 => uploaded[t] = Artifact(t, m)

\* the server upload failed after the client upload had written its artifact
C11_Witness ==
    /\ outcome["uploadServer"] = "fail"
    /\ Settled(stepUploading)
    /\ failOrder = <<"uploadServer">>
    /\ uploaded["uploadClient"] = [kind |-> "client", gen |-> 1]
    /\ m.step = stepFailed

\* did the remote goroutine of stepParsing fail to fetch the remote document
RemoteFailed ==
    /\ config.caddyfile
    /\ pc["parseRemote"] = "done"
    /\ opsDone["parseRemote"] = 0

\* C12: once the message of the Parsing stage has been handled: if the local
\* parse failed the step is stepFailed with parse shown taskFailed and nothing
\* else was started; if it succeeded the stage completed (parse shown
\* taskDone, Generating started) whatever the remote goroutine met, and when
\* the remote goroutine could not connect or download, no row is remote.
C12_LocalFatalRemoteNot ==
    Settled(stepParsing) =>
        /\ outcome["parseLocal"] = "fail" =>
              /\ m.step = stepFailed /\ m.parseStatus = taskFailed
              /\ launched = <<stepParsing>>
        /\ outcome["parseLocal"] = "ok" =>
              /\ m.parseStatus = taskDone
              /\ WasLaunched(stepGenerating)
              /\ m.serviceRows.services = m.services
              /\ RemoteFailed => ~m.serviceRows.isRemote

\* the remote goroutine could not connect and the stage completed
C12_Witness ==
    /\ Settled(stepParsing)
    /\ outcome["parseLocal"] = "ok"
    /\ RemoteFailed
    /\ call["parseRemote"].done /\ call["parseRemote"].ret = NoClient
    /\ WasLaunched(stepGenerating)
    /\ ~m.serviceRows.isRemote

FailedFlag(r, name) ==
    CASE name = "server" -> r.serverFailed
      [] name = "client" -> r.clientFailed
      [] OTHER           -> r.caddyFailed

\* the goroutines of a step that sent an error, in the order of their sends
FailedOf(step) == SelectSeq(failOrder, LAMBDA t : StageOf(t) = step)

\* C14: when the collector of a fanned-out stage has returned with failures,
\* its failed flags are those of the goroutines that failed, and once its
\* message has been handled the error of the model is the error of the
\* goroutine that sent an error first.
C14_FirstErrorSurfaced ==
    \A step \in FanOut :
        /\ (run.step = step /\ ~run.active /\ WasLaunched(step)) =>
              /\ \A t \in StageTasks(step, config) :
                    FailedFlag(run, ResultName(t)) <=> outcome[t] = "fail"
              /\ StageFailed(step) =>
                    run.firstErr = ResultName(Head(FailedOf(step)))
        /\ (StageFailed(step) /\ Settled(step)) =>
              m.err = ResultName(Head(FailedOf(step)))

\* both uploads failed, the client's first, and its error is the one shown
C14_Witness ==
    /\ Settled(stepUploading)
    /\ failOrder = <<"uploadClient", "uploadServer">>
    /\ m.err = "client"
    /\ run.serverFailed /\ run.clientFailed

C6_CloseAllEmptiesPool ==
    /\ lastCloseAll.ran =>
          /\ \A k \in Keys : pool[k] = NoClient
          /\ lastCloseAll.cached \subseteq closed
    /\ \A k \in Keys : pool[k] # NoClient => pool[k] \notin closed
    /\ \A t \in TaskIds :
          call[t].purged => (call[t].dialed /\ ~call[t].retClosed)

\* CloseAll closed a cached client and a later GetClient for the same key
\* returned a new one
C6_Witness ==
    \E t \in TaskIds :
        /\ call[t].purged
        /\ call[t].ret # NoClient
        /\ closed # {}
        /\ closeAllCalls >= 1

\* C7: no client is closed while a command issued through it by a goroutine
\* of the pipeline is executing.
C7_NoCloseInFlight ==
    \A t \in TaskIds : pc[t] = "inop" => held[t] \notin closed

\* C8: while a goroutine is inside GetClient for one host, a goroutine that
\* is about to call GetClient for another host can enter it.
C8_OtherHostNotBlocked ==
    \A t, u \in TaskIds :
        (pc[t] = "locked" /\ CallsGetClient(u) /\ KeyOf(u) # KeyOf(t))
            => ENABLED GetClientLock(u)

\* C9: when the process has ended, CloseAll has been called exactly once.
C9_CloseAllExactlyOnce ==
    exitCode # -1 => closeAllCalls = 1

\* C25: a GetClient call whose NewClient failed returns the error (no
\* client), having dialed once; when it returns, the pool holds nothing
\* under its key and what it holds under the other keys is what it held
\* when the call took the lock.
C25_DialFailureReturned ==
    [][\A t \in TaskIds :
          (/\ poolMu = t /\ poolMu' = NoHolder
           /\ call'[t].done /\ call'[t].dialed /\ ~call'[t].dialOK)
          => /\ call'[t].ret = NoClient
             /\ nextId' = nextId
             /\ pool'[KeyOf(t)] = NoClient
             /\ \A k \in Keys \ {KeyOf(t)} : pool'[k] = pool[k]]_vars

\* a call found a dead client under its key, failed to dial, and left the
\* pool without an entry for its key and with the other key's client
C25_Witness ==
    \E t \in TaskIds :
        /\ call[t].done /\ call[t].dialed /\ ~call[t].dialOK
        /\ call[t].prev # NoClient
        /\ call[t].ret = NoClient
        /\ pool[KeyOf(t)] = NoClient
        /\ \E k \in Keys \ {KeyOf(t)} : pool[k] # NoClient

\* C31: a GetClient call that finds a cached client whose probe fails does
\* not return that client: it closes it, dials, and leaves under the key
\* the client it returns (none when the dial failed)
C31_DeadClientReplaced ==
    [][\A t \in TaskIds :
          (/\ poolMu = t /\ poolMu' = NoHolder
           /\ pool[KeyOf(t)] # NoClient
           /\ call'[t].done /\ ~call'[t].probeOK)
          => /\ call'[t].ret # pool[KeyOf(t)]
             /\ pool[KeyOf(t)] \in closed'
             /\ call'[t].dialed
             /\ pool'[KeyOf(t)] = call'[t].ret
             /\ call'[t].ret \notin closed']_vars

\* a goroutine found a cached client dead and got a new one
C31_Witness ==
    \E t \in TaskIds :
        /\ call[t].done /\ call[t].prev # NoClient /\ ~call[t].probeOK
        /\ call[t].dialed /\ call[t].ret \notin {NoClient, call[t].prev}
        /\ pool[KeyOf(t)] = call[t].ret /\ call[t].prev \in closed

\* C30: two goroutines of one stage call GetClient for the same key; the
\* first to take the lock finds the pool empty and its dial succeeds, the
\* second finds the client of the first alive.  Then only the first has
\* dialed and both have received the same client.
C30_OneDialPerKey ==
    \A t, u \in TaskIds :
        (/\ t # u /\ KeyOf(t) = KeyOf(u) /\ StageOf(t) = StageOf(u)
         /\ call[t].done /\ call[u].done
         /\ call[t].prev = NoClient /\ call[t].dialOK
         /\ call[u].prev = call[t].ret /\ call[u].probeOK)
        => /\ call[t].dialed /\ ~call[u].dialed
           /\ call[u].ret = call[t].ret

\* the server restart and the caddy restart both called GetClient on an
\* empty pool: one dialed, the other received the same client, which is the
\* one the pool holds
C30_Witness ==
    \E t, u \in {"restartServer", "restartCaddy"} :
        /\ t # u
        /\ call[t].done /\ call[u].done
        /\ call[t].prev = NoClient /\ call[t].dialed /\ call[t].dialOK
        /\ ~call[u].dialed /\ call[u].probeOK
        /\ call[u].ret = call[t].ret
        /\ pool[KeyServer] = call[t].ret

(***************************************************************************)
(* Vocabulary of the parser's properties: what a document says             *)
(***************************************************************************)
IsProxyLine(l) == l.kind = "text" /\ l.port # NoPort
IsPlainProxy(l) == IsProxyLine(l) /\ l.opens = 0 /\ l.closes = 0
IsClosing(l) == l.kind = "text" /\ l.port = NoPort /\ l.opens = 0 /\ l.closes = 1

\* the names between the commas of a header, trimmed, the empty ones dropped
DomainsOf(pieces) ==
    LET kept == SelectSeq(pieces, LAMBDA p : p.text # "")
    IN  [i \in 1..Len(kept) |-> kept[i].text]

\* a port number written without leading zero in at most five digits
IsPortNumeral(ds) == Len(ds) \in 1..5 /\ (Len(ds) > 1 => Head(ds) # 0)

\* digits of a number no int can hold
OutOfRange(ds) == Len(StripZeros(ds)) > Len(MaxInt)

\* the brace depth in front of line i
RECURSIVE DepthBefore(_, _)
DepthBefore(d, i) ==
    IF i <= 1 THEN 0
    ELSE DepthBefore(d, i - 1)
         + (CASE d[i - 1].kind = "head" -> 1
              [] d[i - 1].kind = "text" -> d[i - 1].opens - d[i - 1].closes
              [] OTHER -> 0)

\* the closing line of the block whose body starts at line i, 0 if none: the
\* body holds plain reverse_proxy lines and annotations only
RECURSIVE BlockEnd(_, _)
BlockEnd(d, i) ==
    IF i > Len(d) THEN 0
    ELSE IF IsClosing(d[i]) THEN i
    ELSE IF IsPlainProxy(d[i]) \/ d[i].kind = "svc" THEN BlockEnd(d, i + 1)
    ELSE 0

\* the document from line i on as a sequence of annotated blocks (annotation,
\* header, reverse_proxy line, possibly further annotations and
\* reverse_proxy lines, closing brace): [ok, blocks], a block being the
\* numbers of its first and last line
RECURSIVE SplitBlocks(_, _)
SplitBlocks(d, i) ==
    IF i > Len(d) THEN [ok |-> TRUE, blocks |-> <<>>]
    ELSE IF i + 3 <= Len(d) /\ d[i].kind = "svc" /\ d[i + 1].kind = "head"
            /\ IsPlainProxy(d[i + 2]) /\ BlockEnd(d, i + 3) # 0
    THEN LET e == BlockEnd(d, i + 3)
             rest == SplitBlocks(d, e + 1)
         IN  [ok |-> rest.ok,
              blocks |-> <<[from |-> i, to |-> e]>> \o rest.blocks]
    ELSE [ok |-> FALSE, blocks |-> <<>>]

\* the blocks of the document annotated with a name
BlocksNamed(d, name) ==
    SelectSeq(SplitBlocks(d, 1).blocks, LAMBDA b : d[b.from].name = name)

\* is the name annotated anywhere but in front of a header
AnnotatedInside(d, name) ==
    \E i \in 1..Len(d) :
        /\ d[i].kind = "svc" /\ d[i].name = name
        /\ ~(i < Len(d) /\ d[i + 1].kind = "head")

\* the domain lists of a sequence of blocks, one after the other
RECURSIVE ConcatDomains(_, _)
ConcatDomains(d, bs) ==
    IF bs = <<>> THEN <<>>
    ELSE DomainsOf(d[Head(bs).from + 1].pieces) \o ConcatDomains(d, Tail(bs))

\* the records returned under a name
RecordsNamed(res, name) == SelectSeq(res.services, LAMBDA r : r.Name = name)

\* a document of blocks of four lines with names all different
PlainBlocks(d) ==
    LET sp == SplitBlocks(d, 1)
    IN  /\ sp.ok /\ sp.blocks # <<>>
        /\ \A j \in 1..Len(sp.blocks) :
              /\ sp.blocks[j].to = sp.blocks[j].from + 3
              /\ IsPortNumeral(d[sp.blocks[j].from + 2].port)
        /\ \A j, k \in 1..Len(sp.blocks) :
              j # k => d[sp.blocks[j].from].name # d[sp.blocks[k].from].name

\* the record a block of four lines stands for
RecordOf(d, b) ==
    [Name |-> d[b.from].name, LocalAddr |-> d[b.from].addr.text,
     VPSPort |-> d[b.from + 2].port,
     Domains |-> DomainsOf(d[b.from + 1].pieces)]

C16_MergedDomains ==
    \A k \in 1..Len(results) : \A name \in Names :
        (/\ SplitBlocks(doc, 1).ok
         /\ Len(BlocksNamed(doc, name)) >= 2
         /\ ~AnnotatedInside(doc, name))
        => /\ Len(RecordsNamed(results[k], name)) = 1
           /\ RecordsNamed(results[k], name)[1].Domains
                 = ConcatDomains(doc, BlocksNamed(doc, name))

\* C17: when every reverse_proxy line of the document stands at brace depth
\* zero, no record is returned.
C17_ProxyOutsideBlockIgnored ==
    \A k \in 1..Len(results) :
        (\A i \in 1..Len(doc) : IsProxyLine(doc[i]) => DepthBefore(doc, i) = 0)
            => results[k].services = <<>>

\* C18: for a document of four-line blocks with names all different,
\* ParseContent returns no error and the records of the blocks in the order
\* of the blocks.
C18_RecordPerBlock ==
    \A k \in 1..Len(results) :
        PlainBlocks(doc) =>
            LET bs == SplitBlocks(doc, 1).blocks
            IN  results[k] = [services |-> [j \in 1..Len(bs) |-> RecordOf(doc, bs[j])],
                              err |-> FALSE]

\* two blocks, the first with a header of three names, gave two records
C18_Witness ==
    /\ Len(results) >= 1
    /\ PlainBlocks(doc)
    /\ Len(doc) = 8
    /\ Len(results[1].services) = 2
    /\ results[1].services[1].Domains = <<"d1", "d2", "d3">>
    /\ results[1].services[1].Name # results[1].services[2].Name

\* C19: no call of ParseContent returns an error.
C19_NeverAnError ==
    \A k \in 1..Len(results) : ~results[k].err

\* C20: when the digits of every reverse_proxy line of the document are out
\* of the range of int, every record returned has port 0.
C20_UnparsablePortIsZero ==
    \A k \in 1..Len(results) :
        (\A i \in 1..Len(doc) : IsProxyLine(doc[i]) => OutOfRange(doc[i].port))
            => \A j \in 1..Len(results[k].services) :
                  results[k].services[j].VPSPort = <<0>>

\* C21: in a document of annotated blocks, a name that annotates two or more
\* blocks (and no reverse_proxy line inside a block) has one record, whose
\* local address and port are those of the first of its blocks, whatever
\* address and port the later blocks give.
C21_FirstSeenKept ==
    \A k \in 1..Len(results) : \A name \in Names :
        (/\ SplitBlocks(doc, 1).ok
         /\ Len(BlocksNamed(doc, name)) >= 2
         /\ ~AnnotatedInside(doc, name))
        => LET first == BlocksNamed(doc, name)[1]
               recs == RecordsNamed(results[k], name)
           IN  /\ Len(recs) = 1
               /\ recs[1].LocalAddr = TrimSpace(doc[first.from].addr)
               /\ recs[1].VPSPort = Atoi(doc[first.from + 2].port).val

\* a name came back with another address and another port, and its record
\* has the domains of both blocks and the address and port of the first
C21_Witness ==
    /\ Len(results) >= 1
    /\ SplitBlocks(doc, 1).ok
    /\ \E name \in Names :
          LET bs == BlocksNamed(doc, name)
              recs == RecordsNamed(results[1], name)
          IN  /\ Len(bs) = 2
              /\ doc[bs[1].from].addr # doc[bs[2].from].addr
              /\ doc[bs[1].from + 2].port # doc[bs[2].from + 2].port
              /\ Len(recs) = 1
              /\ recs[1].LocalAddr = doc[bs[1].from].addr.text
              /\ recs[1].VPSPort = doc[bs[1].from + 2].port
              /\ recs[1].Domains = ConcatDomains(doc, bs)

(***************************************************************************)
(* Vocabulary of the operations' properties                                *)
(***************************************************************************)
\* the output is the word active with nothing but white space around it
IsActiveOutput(out) ==
    \E i \in 1..Len(out) :
        /\ out[i] = "active"
        /\ \A j \in 1..Len(out) : j # i => out[j] \in White

\* pieces i and j of the output stand on the same line
SameLine(out, i, j) ==
    \A k \in 1..Len(out) :
        ((i <= k /\ k <= j) \/ (j <= k /\ k <= i)) => out[k] # "NL"

\* some line of the output is a JSON object whose State is "running" in
\* upper or lower case
HasRunningLine(out) ==
    \E i \in 1..Len(out) :
        /\ out[i] \in {"jRunning", "jRunningCap"}
        /\ \A j \in 1..Len(out) :
              (j # i /\ SameLine(out, i, j)) => out[j] = "SP"

\* the home directory the shorthand stands for
HomeOf(user) ==
    IF user = "root" THEN <<"/", "root">> ELSE <<"/", "home", "/", user>>

\* the path with a leading '~' replaced by the home directory
Expanded(user, path) ==
    IF Len(path) >= 1 /\ path[1] = "~"
    THEN HomeOf(user) \o SubSeq(path, 2, Len(path))
    ELSE path

\* the operations that take a remote path or directory
PathOps ==
    {"UploadContent", "DownloadContent", "FileExists",
     "RestartDockerCompose", "GetDockerComposeStatus"}

(***************************************************************************)
(* Properties of the operations                                            *)
(***************************************************************************)
\* C22: GetServiceStatus returns no error; when the status command fails it
\* returns isActive false; it returns isActive true only when the command
\* succeeded and its output, white space trimmed, is the word active.
C22_StatusNeverErrors ==
    opLog.op = "GetServiceStatus" =>
        /\ ~opLog.res.err
        /\ ~opLog.ok[1] => ~opLog.res.active
        /\ opLog.res.active => (opLog.ok[1] /\ IsActiveOutput(opLog.stdout))

\* the command printed "active" and a line feed, and the unit is active
C22_Witness ==
    /\ opLog.op = "GetServiceStatus"
    /\ opLog.ok[1]
    /\ opLog.stdout = <<"active", "NL">>
    /\ opLog.res.active
    /\ ~opLog.res.err

\* C23: FileExists returns no error, whatever fails.
C23_ExistsNeverErrors ==
    opLog.op = "FileExists" => ~opLog.res.err

\* C24: GetDockerComposeStatus runs the modern command first and the legacy
\* command exactly when the modern one failed or printed nothing; when the
\* modern one printed something, the result is running exactly when some
\* line is a JSON object with State running in upper or lower case, the
\* lines that are no such object being passed over.
C24_ModernThenLegacy ==
    opLog.op = "GetDockerComposeStatus" =>
        LET usable == opLog.ok[1] /\ opLog.stdout # <<>>
        IN  /\ opLog.res.ran[1] = "modern"
            /\ (opLog.res.ran = <<"modern", "legacy">>) <=> ~usable
            /\ usable => /\ ~opLog.res.err
                         /\ opLog.res.running <=> HasRunningLine(opLog.stdout)

\* a line that is no JSON came first and a running container after it
C24_Witness ==
    /\ opLog.op = "GetDockerComposeStatus"
    /\ opLog.ok[1]
    /\ opLog.stdout = <<"text", "NL", "jRunningCap">>
    /\ opLog.res.running
    /\ opLog.res.ran = <<"modern">>

\* C26: every path an operation hands to the remote side is the path it was
\* given with a leading '~' replaced by /root for root and /home/<user>
\* otherwise (UploadContent also hands over the directory of that path).
C26_TildeExpanded ==
    opLog.op \in PathOps =>
        \A i \in 1..Len(opLog.res.used) :
            \/ opLog.res.used[i] = Expanded(opLog.user, opLog.arg)
            \/ /\ opLog.op = "UploadContent" /\ i = 1
               /\ opLog.res.used[i] = Dir(Expanded(opLog.user, opLog.arg))

(***************************************************************************)
(* Properties of the views under the AppModel                              *)
(***************************************************************************)
\* the pull model of invocation k was made while a local Caddyfile existed
\* and never got y
Unconfirmed(k) == appHist.hadLocal[k] /\ ~appHist.yKey[k]

\* C27: the local Caddyfile is written only by a pull model whose own
\* download succeeded and, when a local file existed as the model was made,
\* only after y on that model; a model left with n or ESC at the
\* confirmation starts no connection and no write
C27_WriteAfterDownloadAndConfirm ==
    /\ \A w \in appHist.writes :
          /\ pullStepConnecting \in appHist.completed.pull[w.inv]
          /\ ~Unconfirmed(w.inv)
          /\ w.content = RemoteContent
    /\ \A k \in Invs :
          Unconfirmed(k) => appHist.launched.pull[k] = {}

\* C28: Uploading of a sync invocation is launched only after Generating of
\* that invocation completed without failure, and Restarting only after its
\* Uploading did, whatever views were left and entered in between
C28_StagesPerInvocation ==
    \A k \in Invs :
        /\ stepUploading \in appHist.launched.sync[k]
              => stepGenerating \in appHist.completed.sync[k]
        /\ stepRestarting \in appHist.launched.sync[k]
              => stepUploading \in appHist.completed.sync[k]

(***************************************************************************)
(* Termination of the sync view                                            *)
(***************************************************************************)
\* the preview of a dry run
Preview(model) == model.dryRun /\ model.step = stepComplete

\* C29: with no key sent, every remote operation returning and fair
\* scheduling, a sync that is not a dry run reaches stepComplete or
\* stepFailed, and a dry run reaches the preview or stepFailed
C29_SyncTerminates ==
    /\ ~m.dryRun ~> (~m.dryRun /\ m.step \in {stepComplete, stepFailed})
    /\ m.dryRun ~> (Preview(m) \/ m.step = stepFailed)

\* a sync that is not a dry run has gone through its four stages
C29_Witness ==
    /\ ~m.dryRun /\ m.step = stepComplete
    /\ m.restartServerStatus = taskDone /\ m.restartClientStatus = taskDone
    /\ commits = 0

(***************************************************************************)
(* Properties of the pool with RemoveClient                                *)
(***************************************************************************)
\* C32: RemoveClient closes and removes the entry of its key and nothing
\* else, does nothing when the key is not cached, and the next GetClient
\* for that key dials
C32_RemoveOnlyThatEntry ==
    /\ poolLog.op = "RemoveClient" =>
          /\ pool[poolLog.key] = NoClient
          /\ \A k \in Keys \ {poolLog.key} : pool[k] = poolLog.before[k]
          /\ closed = poolLog.closedBefore
                        \cup ({poolLog.before[poolLog.key]} \ {NoClient})
          /\ poolLog.before[poolLog.key] = NoClient =>
                pool = poolLog.before /\ closed = poolLog.closedBefore
    /\ (poolLog.op = "GetClient" /\ poolLog.afterRemove) =>
          /\ poolLog.dialed
          /\ poolLog.ret \notin closed
          /\ poolLog.ret # NoClient => pool[poolLog.key] = poolLog.ret

\* a cached client was removed while the other key stayed cached, and the
\* next GetClient for its key dialed a new one
C32_Witness ==
    /\ poolLog.op = "GetClient" /\ poolLog.afterRemove
    /\ poolLog.dialed /\ poolLog.ret # NoClient
    /\ closed # {}
    /\ \E k \in Keys \ {poolLog.key} : pool[k] # NoClient

(***************************************************************************)
(* Properties of the parsing stage's service list                          *)
(***************************************************************************)
\* every service once
EachOnce(q, names) ==
    /\ MapOf(q) = names
    /\ \A i, j \in DOMAIN q : i # j => q[i] # q[j]

\* C33: the services a run of the parsing stage hands on hold each parsed
\* service once, in the order the parser returned them, so two runs on the
\* same document hand on the same list
C33_FirstSeenOrderHandedOn ==
    /\ \A i \in DOMAIN merges.runs :
          /\ EachOnce(merges.runs[i].services, MapOf(merges.parsed))
          /\ merges.runs[i].services = merges.parsed
    /\ \A i, j \in DOMAIN merges.runs :
          merges.runs[i].services = merges.runs[j].services

(***************************************************************************)
(* Properties of the restart view                                          *)
(***************************************************************************)
\* C34: in phase restartPhaseComplete every selected task is taskDone, in
\* whatever order the messages of the batch were delivered
C34_CompleteAllDone ==
    restart.m.phase = restartPhaseComplete =>
        \A t \in RestartTasks :
            Selected(restart.m, t) => restart.m.status[t] = taskDone

\* C35: in phase restartPhaseFailed the task named as failed is taskFailed,
\* the tasks verified before the failure are taskDone and no selected task
\* is taskRunning
C35_FailedNoneRunning ==
    restart.m.phase = restartPhaseFailed =>
        /\ restart.m.status[restart.lastDone.failedTask] = taskFailed
        /\ restart.lastDone.serverRatholeDone
              => restart.m.status["serverRathole"] = taskDone
        /\ restart.lastDone.serverCaddyDone
              => restart.m.status["serverCaddy"] = taskDone
        /\ \A t \in RestartTasks :
              Selected(restart.m, t) => restart.m.status[t] # taskRunning

(***************************************************************************)
(* Task statuses at the end of the sync pipeline                           *)
(***************************************************************************)
\* the task statuses of a SyncModel; the caddy restart is a task only with
\* a compose directory
Statuses(model, cfg) ==
    {model.parseStatus, model.generateStatus, model.uploadServerStatus,
     model.uploadClientStatus, model.restartServerStatus,
     model.restartClientStatus}
      \cup (IF cfg.caddyComposeDir THEN {model.restartCaddyStatus} ELSE {})

\* nothing runs at an end step, and everything is done at a real completion
AtRest(model, cfg) ==
    /\ model.step \in {stepFailed, stepComplete}
          => taskRunning \notin Statuses(model, cfg)
               \cup {model.restartCaddyStatus}
    /\ (model.step = stepComplete /\ ~model.dryRun)
          => Statuses(model, cfg) = {taskDone}

\* C36: in the sync view, at stepFailed and at stepComplete no task status
\* is taskRunning, and at stepComplete outside a dry run every launched task
\* is taskDone
C36_NoTaskRunningAtEnd ==
    app.currentView = "sync" => AtRest(app.syncModel, config)

(***************************************************************************)
(* Properties of the parser on malformed and nested lines                  *)
(***************************************************************************)
\* line i of d closes a brace that nothing opened
UnmatchedClose(d, i) ==
    /\ d[i].kind = "text" /\ d[i].closes > d[i].opens
    /\ DepthBefore(d, i) = 0

\* lines j .. j+3 of d are an annotation, a header, a reverse_proxy line
\* and a closing brace
WellFormedAt(d, j) ==
    /\ j + 3 <= Len(d)
    /\ d[j].kind = "svc" /\ d[j + 1].kind = "head"
    /\ d[j + 2].kind = "text" /\ d[j + 2].port # NoPort
    /\ d[j + 2].opens = 0 /\ d[j + 2].closes = 0
    /\ d[j + 3] = Text(NoPort, 0, 1)

NamesOf(res) == {res.services[i].Name : i \in DOMAIN res.services}

\* C37: a well-formed annotated block that follows a line with an unmatched
\* closing brace still yields its record
C37_BlockAfterStrayBrace ==
    \A k \in DOMAIN results : \A i, j \in DOMAIN doc :
        (/\ ~results[k].err
         /\ UnmatchedClose(doc, i) /\ i < j /\ WellFormedAt(doc, j))
        => doc[j].name \in NamesOf(results[k])

\* the number of headers of a document made of an annotation, headers one
\* inside the other, a reverse_proxy line and closing braces; 0 for any
\* other document
NestedHeaders(d) ==
    IF \E h \in 2..Len(d) :
          /\ d[1].kind = "svc" /\ h + 3 <= Len(d)
          /\ \A i \in 2..(h + 1) : d[i].kind = "head"
          /\ IsPlainProxy(d[h + 2]) /\ IsPortNumeral(d[h + 2].port)
          /\ \A i \in (h + 3)..Len(d) : IsClosing(d[i])
          /\ Len(d) - (h + 2) <= h
    THEN CHOOSE h \in 2..Len(d) : d[h + 1].kind = "head" /\ d[h + 2].kind = "text"
    ELSE 0

\* C38: the domains of a record are those of the last line of the form of a
\* header in front of the reverse_proxy line, at any depth, and each such
\* line adds one to the brace depth
C38_InnermostHeaderWins ==
    \A k \in DOMAIN results :
        NestedHeaders(doc) > 0 =>
            LET h == NestedHeaders(doc)
            IN  /\ results[k] =
                     [services |->
                        <<[Name |-> doc[1].name,
                           LocalAddr |-> TrimSpace(doc[1].addr),
                           VPSPort |-> Atoi(doc[h + 2].port).val,
                           Domains |-> DomainsOf(doc[h + 1].pieces)]>>,
                      err |-> FALSE]
                /\ parser.braceCount = h - (Len(doc) - (h + 2))

\* three headers one inside the other, the innermost with other names than
\* the site header, and two of the three braces closed
C38_Witness ==
    /\ Len(results) >= 1
    /\ NestedHeaders(doc) = 3
    /\ DomainsOf(doc[4].pieces) # DomainsOf(doc[2].pieces)
    /\ results[1].services[1].Domains = DomainsOf(doc[4].pieces)
    /\ parser.braceCount = 1

\* the locals of Parse after the first k lines of d
StateAfter(d, k) == Parse(NewParser, SubSeq(d, 1, k))

\* d is an annotation, one line that is neither an annotation nor a header
\* and leaves the brace depth at zero, and a well-formed block
Separated(d) ==
    /\ Len(d) = 5
    /\ d[1].kind = "svc"
    /\ d[2].kind = "text" /\ d[2].opens = d[2].closes
    /\ d[3].kind = "head"
    /\ IsPlainProxy(d[4]) /\ IsPortNumeral(d[4].port)
    /\ IsClosing(d[5])

\* C39: after a line that is neither blank, an annotation nor a header and
\* leaves the brace depth at zero, no annotation is pending and the domain
\* set is nil; a block whose annotation is followed by such a line before
\* its header yields no record
C39_ClearedAtDepthZero ==
    Len(results) >= 1 =>
        /\ parser = StateAfter(doc, Len(doc))
        /\ \A k \in DOMAIN doc :
               (/\ doc[k].kind = "text"
                /\ ~StateAfter(doc, k).err
                /\ StateAfter(doc, k).braceCount = 0)
               => /\ StateAfter(doc, k).pending = NoPending
                  /\ StateAfter(doc, k).currentDomains = NilSlice
        /\ Separated(doc) =>
               \A i \in DOMAIN results :
                   results[i] = [services |-> <<>>, err |-> FALSE]

\* an annotation, a line with a matched pair of braces, a block: the
\* annotation is dropped after the second line, the domains after the last
C39_Witness ==
    /\ Len(results) >= 1
    /\ Separated(doc) /\ doc[2].opens = 1
    /\ StateAfter(doc, 1).pending.set
    /\ ~StateAfter(doc, 2).pending.set
    /\ StateAfter(doc, 4).currentDomains # NilSlice
    /\ parser.currentDomains = NilSlice
    /\ results[1].services = <<>>

====
